---------------------------- MODULE Spec2Model ----------------------------
(***************************************************************************)
(* Credential, transport and tool layer of the Okta IGA MCP server.        *)
(*                                                                         *)
(*   oauthServiceApp (src/unnamed/part_001): tokenCache, dpopKeyPair,      *)
(*     dpopNonce, buildClientAssertion, createDPoPProof, fetchAccessToken, *)
(*     getAccessToken, clearTokenCache, createDPoPProofForRequest,         *)
(*     updateDPoPNonce.                                                    *)
(*   client (src/src/okta/management/groups.ts, lines 56-492):             *)
(*     rateLimitState, updateRateLimitState, getRateLimitInfo,             *)
(*     proactiveRateLimitDelay, parseNextLink, extractAfterCursor,         *)
(*     request, paginatedRequest, OktaApiError.                            *)
(*   server (src/unnamed/part_003): createStructuredError,                 *)
(*     parseTopLevelFields, projectTopLevel, applyFieldsProjection, the    *)
(*     CallTool handler; tools (src/unnamed/part_004).                     *)
(*                                                                         *)
(* Every asynchronous call of the program is a process p.  Its position    *)
(* pc[p] names the await at which it is suspended; the code between two    *)
(* awaits runs atomically (one JavaScript job) and is one action.          *)
(* Time is Date.now() in milliseconds.  crypto.randomUUID() is modelled as *)
(* a source of values that never repeat (a counter).                       *)
(*                                                                         *)
(* Specifications:                                                         *)
(*   SpecToken    concurrent callers of getAccessToken;                    *)
(*   SpecRequest  one client calling request / paginatedRequest against    *)
(*                endpoints that may answer anything;                      *)
(*   SpecBackoff  the same client with a long retry chain;                 *)
(*   SpecLink     paginatedRequest over the Link headers of LinkHeaders;   *)
(*   SpecTool     tool calls served by the CallTool handler on top of the  *)
(*                client;                                                  *)
(*   SpecProjection  the CallTool handler returning list results           *)
(*                projected to the fields of the arguments;                *)
(*   SpecObserve  concurrent calls of request and paginatedRequest;        *)
(*   SpecModule   callers of every exported function of oauthServiceApp.   *)
(***************************************************************************)
EXTENDS Integers, Sequences, FiniteSets, TLC

(***************************************************************************)
(* Bounds of the model.                                                    *)
(***************************************************************************)
NumProcs == 2          \* concurrent asynchronous calls
MaxCalls == 2          \* calls started in one behaviour
MaxNow == 1000         \* the clock is advanced by Tick up to here
TickMs == 1000         \* granularity of the passing of time
MaxRetriesBound == 2   \* config.maxRetries ranges over 0..MaxRetriesBound
MaxRequests == 1       \* calls of request / paginatedRequest in one behaviour

Procs == 1 .. NumProcs

(***************************************************************************)
(* Values.  null / undefined of the source are NoStr for strings, NoNum    *)
(* for numbers and the empty sequence for objects.                         *)
(***************************************************************************)
NoStr == "null"
NoNum == -1
Null == << >>
Some(x) == << x >>

Max(a, b) == IF a >= b THEN a ELSE b
Min(a, b) == IF a <= b THEN a ELSE b

RECURSIVE Pow2(_)
Pow2(k) == IF k = 0 THEN 1 ELSE 2 * Pow2(k - 1)

(***************************************************************************)
(* The token endpoint's answers (spec section 6; part_001:127-188).        *)
(*   status, body: 200 with a token, 400 with an OAuth error code, 401.    *)
(*   nonce: the DPoP-Nonce response header or NoStr.  RFC 9449 makes a     *)
(*   nonce at least one character, so a present header is non-empty.       *)
(*   expiresIn: expires_in of a success body, in seconds.                  *)
(***************************************************************************)
NonceValues == {"n1", "n2"}
NonceHeaders == {NoStr} \cup NonceValues
ExpiresInValues == {60, 61}

TokenResponses ==
    [status : {200}, body : {"token"}, nonce : NonceHeaders,
     expiresIn : ExpiresInValues]
    \cup [status : {400}, body : {"use_dpop_nonce", "invalid_dpop_proof"},
          nonce : NonceHeaders, expiresIn : {0}]
    \cup [status : {401}, body : {"invalid_client"}, nonce : NonceHeaders,
          expiresIn : {0}]

NoResponse == [status |-> 0, body |-> "", nonce |-> NoStr, expiresIn |-> 0]

\* A check of the status that takes every response for a success;
\* FailureKeepsCache tells it from Response.ok.
AnyStatusOk(status) == TRUE

\* Response.ok: the status is in the range 200-299.
ResponseOk(status) == status >= 200 /\ status <= 299

\* A response of a resource endpoint: see "client: the answers of a resource
\* endpoint" below.
RateLimit(limit, remaining, reset) ==
    [limit |-> limit, remaining |-> remaining, reset |-> reset]

ApiResponse(status, rl, body, link) ==
    [status |-> status, limit |-> rl.limit, remaining |-> rl.remaining,
     reset |-> rl.reset, body |-> body, link |-> link, nonce |-> NoStr]

\* The response r with a DPoP-Nonce header.
WithNonce(r, nonce) == [r EXCEPT !.nonce = nonce]

NoApiResponse == ApiResponse(0, RateLimit(NoNum, NoNum, NoNum), "", Null)

(***************************************************************************)
(* Errors thrown by the program: the name of the Error class, the kind of  *)
(* message and the HTTP status the message or the error carries.           *)
(***************************************************************************)
NoOktaError == [errorCode |-> NoStr, errorId |-> NoStr, errorCauses |-> << >>]
NoRateLimitInfo ==
    [retryAfterMs |-> NoNum, remaining |-> NoNum, reset |-> NoNum]

Error(name, msg, status) ==
    [name |-> name, msg |-> msg, status |-> status, errorType |-> NoStr,
     oktaError |-> NoOktaError, rateLimitInfo |-> NoRateLimitInfo]

NoError == Error("none", "", NoNum)
KeyImportError == Error("TypeError", "pkcs8 import failed", NoNum)
FetchFailed == Error("TypeError", "fetch failed", NoNum)
FetchTimeout ==
    Error("TimeoutError", "The operation was aborted due to timeout", NoNum)
BodyUsedError == Error("TypeError", "Body is unusable", NoNum)
JsonSyntaxError == Error("SyntaxError", "Unexpected token", NoNum)
TokenRequestFailed(status) == Error("Error", "Token request failed", status)

\* A classification that knows one type only; ErrorClassification tells it
\* from getErrorType.
AllApiError(statusCode) == "api_error"

\* getErrorType (groups.ts:116-122).
GetErrorType(statusCode) ==
    IF statusCode = 429 THEN "rate_limit_error"
    ELSE IF statusCode = 401 \/ statusCode = 403 THEN "auth_error"
    ELSE IF statusCode = 404 THEN "not_found_error"
    ELSE IF statusCode = 400 \/ statusCode = 422 THEN "validation_error"
    ELSE "api_error"

\* new OktaApiError(statusCode, message, oktaError, rateLimitInfo)
\* (groups.ts:94-114).
OktaApiError(status, msg, oktaError, info) ==
    [name |-> "OktaApiError", msg |-> msg, status |-> status,
     errorType |-> GetErrorType(status), oktaError |-> oktaError,
     rateLimitInfo |-> info]

VARIABLES
    now,             \* Date.now(), ms
    config,          \* [maxRetries, keyOk]: config.maxRetries, and whether
                     \* config.privateKey is a PKCS#8 key importPKCS8 accepts
    tokenCache,      \* Null or Some([accessToken, expiresAt])
    dpopKeyPair,     \* Null or Some(key id)
    dpopNonce,       \* NoStr or the stored nonce
    rateLimitState,  \* Null or Some([limit, remaining, reset, lastUpdated])
    uuids,           \* how many values crypto.randomUUID() has returned
    keys,            \* how many key pairs jose.generateKeyPair has returned
    calls,           \* how many calls have been started
    tokenReqs,       \* jti of the assertion of every request sent to the
                     \* token endpoint, in the order of sending
    pc,              \* pc[p]: where call p is suspended
    op,              \* op[p]: "getAccessToken", "request", "paginatedRequest"
    attempt,         \* attempt[p]: the loop variable of request
    clientAssertion, \* clientAssertion[p]: jti of fetchAccessToken's assertion
    keyPair,         \* keyPair[p]: key id createDPoPProof signs with
    response,        \* response[p]: the response fetchAccessToken holds
    bodyUsed,        \* bodyUsed[p]: response[p]'s body has been read
    sent,            \* sent[p]: the token requests of p's last getAccessToken
    token,           \* token[p]: the bearer value request holds
    sleepMs,         \* sleepMs[p]: argument of the sleep p is in or was last in
    sleepKind,       \* sleepKind[p]: "proactive", "retry" or "none"
    wakeAt,          \* wakeAt[p]: when the timer of that sleep is due
    nHttp,           \* nHttp[p]: fetches of the resource URL in this call
    nSleeps,         \* nSleeps[p]: retry sleeps in the current call
    n429,            \* n429[p]: 429 responses received in the current call
    received,        \* received[p]: the response to the fetch of the current
                     \* attempt, once it has arrived
    outcome,         \* outcome[p]: how the last call of p ended
    toolCall,        \* toolCall[p]: params of the tools/call request p serves
    handlerResult,   \* handlerResult[p]: how tool.handler settled
    toolResult,      \* toolResult[p]: what the CallTool handler returned
    proofCall,       \* proofCall[p]: arguments and result of p's call of
                     \* createDPoPProofForRequest
    cleared          \* history: Null, or what the last clearTokenCache found

globals == << now, config, tokenCache, dpopKeyPair, dpopNonce, rateLimitState,
              uuids, keys, calls, tokenReqs >>
locals == << pc, op, attempt, clientAssertion, keyPair, response, bodyUsed,
             sent, token, sleepMs, sleepKind, wakeAt, nHttp, nSleeps, n429,
             received, outcome >>
mcp == << toolCall, handlerResult, toolResult >>
api == << proofCall, cleared >>
vars == << globals, locals, mcp, api >>

(***************************************************************************)
(* oauthServiceApp: pure parts.                                            *)
(***************************************************************************)

\* crypto.randomUUID(): the n-th value drawn; no two draws are equal.
RandomUUID(n) == n + 1

\* buildClientAssertion (part_001:86-106): a JWT with iss = sub = clientId,
\* aud = token endpoint, iat = now, exp = now + 300 s, jti = randomUUID().
ExpirationSeconds == 300

\* A builder that signs every assertion with one and the same identifier;
\* AssertionUniqueness tells it from buildClientAssertion.
ReusedClientAssertion(n, t) ==
    [jti |-> RandomUUID(0), iat |-> t \div 1000,
     exp |-> (t \div 1000) + ExpirationSeconds]

BuildClientAssertion(n, t) ==
    [jti |-> RandomUUID(n), iat |-> t \div 1000,
     exp |-> (t \div 1000) + ExpirationSeconds]

\* createDPoPProof (part_001:38-81): the claims and the signing key.
\*   claims.nonce = nonce || dpopNonce when either is set;
\*   claims.ath = hash of accessToken when one is given.
\* A signer that leaves the nonce claim out; NonceAdaptation tells it from
\* createDPoPProof.
OmittedNonce(nonce, stored) == NoStr

\* A signer that prefers the stored nonce to its argument; NonceEmbedding
\* tells it from createDPoPProof.
StoredNonceFirst(nonce, stored) ==
    IF stored # NoStr THEN stored ELSE nonce

ProofNonce(nonce, stored) ==
    IF nonce # NoStr THEN nonce ELSE stored

\* The base64url form of the SHA-256 digest of an access token
\* (part_001:60-69): a value of its own kind, different for different
\* tokens.
Sha256(accessToken) == << "sha256", accessToken >>

\* A signer that hashes whatever it is given, an absent token too;
\* TokenHashBinding tells it from createDPoPProof.
AlwaysHashed(accessToken) == Sha256(accessToken)

\* claims.ath (part_001:59-70): set when accessToken is given.
ProofAth(accessToken) ==
    IF accessToken # NoNum THEN Sha256(accessToken) ELSE Null

CreateDPoPProof(htm, htu, accessToken, nonce, stored, key, n) ==
    [jti |-> RandomUUID(n), htm |-> htm, htu |-> htu,
     nonce |-> ProofNonce(nonce, stored), ath |-> ProofAth(accessToken),
     jwk |-> key]

\* fetchAccessToken (part_001:138-143): the first response is a nonce
\* challenge that is retried.
IsNonceChallenge(r) ==
    /\ r.status = 400
    /\ r.body = "use_dpop_nonce"
    /\ r.nonce # NoStr

\* fetchAccessToken (part_001:190-196): what is cached for a success body.
SafetyMarginSeconds == 60

\* An entry that takes the new bearer value and keeps the expiry it had;
\* CacheEntryWhole tells it from the entry fetchAccessToken builds.
KeptExpiry(accessToken, expiresIn, t) ==
    [accessToken |-> accessToken,
     expiresAt |-> IF tokenCache = Null
                   THEN t + (expiresIn - SafetyMarginSeconds) * 1000
                   ELSE tokenCache[1].expiresAt]

NewTokenCache(accessToken, expiresIn, t) ==
    [accessToken |-> accessToken,
     expiresAt |-> t + (expiresIn - SafetyMarginSeconds) * 1000]

\* A cache that is never served; CacheHit tells it from the test of
\* getAccessToken.
NeverValid(cache, t) == FALSE

\* getAccessToken (part_001:203): the cache may be served.
CacheValid(cache, t) ==
    /\ cache # Null
    /\ t < cache[1].expiresAt

\* An update that takes an absent header for a value; NonceNeverAbsent
\* tells it from updateDPoPNonce.
HeaderAsIs(stored, header) == header

\* updateDPoPNonce and part_001:173-176: a present header overwrites.
UpdatedNonce(stored, header) ==
    IF header # NoStr THEN header ELSE stored


(***************************************************************************)
(* Outcome of a call: what the promise of getAccessToken, request or       *)
(* paginatedRequest settled to.                                            *)
(***************************************************************************)
NoValue == [accessToken |-> NoNum, data |-> NoStr, nextLink |-> Null,
            nextAfter |-> Null]
NoOutcome == [state |-> "none", value |-> NoValue, error |-> NoError]
Returned(v) == [state |-> "returned", value |-> v, error |-> NoError]
Raised(e) == [state |-> "raised", value |-> NoValue, error |-> e]

NoToken == NoNum
NoSleep == [num |-> 0, den |-> 1]

DefaultMaxRetries == 3

(***************************************************************************)
(* JSON values, as the tool layer handles them: a string is the sequence   *)
(* of its lexical tokens, an object the sequence of its members in         *)
(* insertion order, an array the sequence of its items.                    *)
(***************************************************************************)
JValue(kind, str, members, items) ==
    [kind |-> kind, str |-> str, members |-> members, items |-> items]

Undefined == JValue("undefined", << >>, << >>, << >>)
JString(s) == JValue("string", s, << >>, << >>)
JArray(items) == JValue("array", << >>, << >>, items)
JObject(members) == JValue("object", << >>, members, << >>)
Member(key, value) == [key |-> key, value |-> value]

\* StructuredError (groups.ts:80-92); NoStr and NoNum are members that
\* are undefined.
StructuredError(type, message, statusCode, oktaError, suggestion, info, t) ==
    [type |-> type, message |-> message, statusCode |-> statusCode,
     errorCode |-> oktaError.errorCode, errorId |-> oktaError.errorId,
     details |-> oktaError.errorCauses, suggestion |-> suggestion,
     retryAfterMs |-> info.retryAfterMs,
     rateLimitRemaining |-> info.remaining, rateLimitReset |-> info.reset,
     timestamp |-> t]

NoStructuredError ==
    StructuredError(NoStr, NoStr, NoNum, NoOktaError, NoStr, NoRateLimitInfo,
                    NoNum)

\* The params of a tools/call request: the tool name, the fields member
\* of the arguments, and whether the input schema of the tool accepts the
\* arguments.
ToolCall(name, fields, valid) ==
    [name |-> name, fields |-> fields, valid |-> valid]
NoToolCall == ToolCall(NoStr, Undefined, TRUE)

\* What the CallTool handler returns: content[0].text as the value that is
\* serialized (payload) or as the structured error, and isError.
ToolResult(isError, payload, error) ==
    [state |-> "returned", isError |-> isError, payload |-> payload,
     error |-> error]
NoToolResult ==
    [state |-> "none", isError |-> FALSE, payload |-> Undefined,
     error |-> NoStructuredError]

\* How the promise of tool.handler(oktaClient, args) has settled.
NoHandlerResult == [state |-> "none", value |-> Undefined, error |-> NoError]
Resolved(v) == [state |-> "resolved", value |-> v, error |-> NoError]
Rejected(e) == [state |-> "rejected", value |-> Undefined, error |-> e]

InitMcp ==
    /\ toolCall = [p \in Procs |-> NoToolCall]
    /\ handlerResult = [p \in Procs |-> NoHandlerResult]
    /\ toolResult = [p \in Procs |-> NoToolResult]

\* A call of createDPoPProofForRequest(httpMethod, httpUri, accessToken)
\* (part_001:221-227): its arguments, the nonce it hands to createDPoPProof
\* (NoStr: undefined) and the proof it resolves to, once signed.
ProofCall(htm, htu, accessToken, nonce) ==
    [htm |-> htm, htu |-> htu, accessToken |-> accessToken, nonce |-> nonce,
     proof |-> Null]

NoProofCall == ProofCall(NoStr, Null, NoNum, NoStr)

InitApi ==
    /\ proofCall = [p \in Procs |-> NoProofCall]
    /\ cleared = Null

InitLocals ==
    /\ pc = [p \in Procs |-> "idle"]
    /\ op = [p \in Procs |-> "none"]
    /\ attempt = [p \in Procs |-> 0]
    /\ clientAssertion = [p \in Procs |-> NoNum]
    /\ keyPair = [p \in Procs |-> NoNum]
    /\ response = [p \in Procs |-> NoResponse]
    /\ bodyUsed = [p \in Procs |-> FALSE]
    /\ sent = [p \in Procs |-> << >>]
    /\ token = [p \in Procs |-> NoToken]
    /\ sleepMs = [p \in Procs |-> NoSleep]
    /\ sleepKind = [p \in Procs |-> "none"]
    /\ wakeAt = [p \in Procs |-> 0]
    /\ nHttp = [p \in Procs |-> 0]
    /\ nSleeps = [p \in Procs |-> 0]
    /\ n429 = [p \in Procs |-> 0]
    /\ received = [p \in Procs |-> NoApiResponse]
    /\ outcome = [p \in Procs |-> NoOutcome]

\* Module state of oauthServiceApp and client right after loading
\* (part_001:15-17, groups.ts:176).
InitGlobals ==
    /\ now = 0
    /\ tokenCache = Null
    /\ dpopKeyPair = Null
    /\ dpopNonce = NoStr
    /\ rateLimitState = Null
    /\ uuids = 0
    /\ keys = 0
    /\ calls = 0
    /\ tokenReqs = << >>

(***************************************************************************)
(* How the promise of getAccessToken settles for its caller.               *)
(*   A direct caller gets the value or the error.                          *)
(*   request / paginatedRequest (groups.ts:301-312, 363-375): with the     *)
(*   token the fetch of the resource URL is issued; an error lands in the  *)
(*   catch block of the attempt.                                           *)
(* The locals of fetchAccessToken die with it.                             *)
(***************************************************************************)
IsTimeout(e) == e.name \in {"AbortError", "TimeoutError"}

TimeoutApiError ==
    OktaApiError(0, "Request timeout", NoOktaError, NoRateLimitInfo)

\* Loop conditions that grant one attempt too many, and any number of
\* attempts; RetryExhaustion and BoundedRetries tell them from the loop of
\* request.
OneMoreAttempt(a, maxRetries) == a <= maxRetries
AlwaysAttemptsLeft(a, maxRetries) == TRUE

\* A loop that never retries; ServerErrorHandling tells it from the loop
\* of request.
NeverAttemptsLeft(a, maxRetries) == FALSE

\* The loop condition left for another attempt (groups.ts:296, 322, 339, 369).
HasAttemptsLeft(a, maxRetries) == a < maxRetries

\* The catch block of request and paginatedRequest for an error that is no
\* OktaApiError (groups.ts:363-375, 469-480): the next attempt, or the throw.
Catch(p, e) ==
    IF HasAttemptsLeft(attempt[p], config.maxRetries)
    THEN /\ attempt' = [attempt EXCEPT ![p] = @ + 1]
         /\ pc' = [pc EXCEPT ![p] = "delay"]
         /\ outcome' = outcome
    ELSE /\ attempt' = attempt
         /\ pc' = [pc EXCEPT ![p] = "done"]
         /\ outcome' = [outcome EXCEPT ![p] =
                           Raised(IF IsTimeout(e) THEN TimeoutApiError ELSE e)]

EndAcquisition(p) ==
    /\ clientAssertion' = [clientAssertion EXCEPT ![p] = NoNum]
    /\ keyPair' = [keyPair EXCEPT ![p] = NoNum]
    /\ response' = [response EXCEPT ![p] = NoResponse]
    /\ bodyUsed' = [bodyUsed EXCEPT ![p] = FALSE]

Resolve(p, accessToken) ==
    /\ EndAcquisition(p)
    /\ IF op[p] = "getAccessToken"
       THEN /\ pc' = [pc EXCEPT ![p] = "done"]
            /\ outcome' = [outcome EXCEPT ![p] =
                  Returned([NoValue EXCEPT !.accessToken = accessToken])]
            /\ UNCHANGED << token, nHttp, attempt >>
       ELSE /\ pc' = [pc EXCEPT ![p] = "fetch"]
            /\ token' = [token EXCEPT ![p] = accessToken]
            /\ nHttp' = [nHttp EXCEPT ![p] = @ + 1]
            /\ UNCHANGED << outcome, attempt >>

Reject(p, e) ==
    /\ EndAcquisition(p)
    /\ UNCHANGED << token, nHttp >>
    /\ IF op[p] = "getAccessToken"
       THEN /\ pc' = [pc EXCEPT ![p] = "done"]
            /\ outcome' = [outcome EXCEPT ![p] = Raised(e)]
            /\ attempt' = attempt
       ELSE Catch(p, e)

(***************************************************************************)
(* getAccessToken / fetchAccessToken (part_001:111-209).                   *)
(***************************************************************************)
TokenEndpoint == "/oauth2/v1/token"

\* A caller invokes getAccessToken(config).
CallGetAccessToken(p) ==
    /\ pc[p] \in {"idle", "done"}
    /\ calls < MaxCalls
    /\ calls' = calls + 1
    /\ pc' = [pc EXCEPT ![p] = "token"]
    /\ op' = [op EXCEPT ![p] = "getAccessToken"]
    /\ outcome' = [outcome EXCEPT ![p] = NoOutcome]
    /\ UNCHANGED << now, config, tokenCache, dpopKeyPair, dpopNonce,
                    rateLimitState, uuids, keys, tokenReqs >>
    /\ UNCHANGED << attempt, clientAssertion, keyPair, response, bodyUsed,
                    sent, token, sleepMs, sleepKind, wakeAt, nHttp, nSleeps,
                    n429, received >>
    /\ UNCHANGED << mcp, api >>

\* part_001:202-207, 111-118 and 22-25: the cache check; on a miss
\* fetchAccessToken builds the first assertion and createDPoPProof asks for
\* the key pair.
GetAccessToken(p) ==
    /\ pc[p] = "token"
    /\ sent' = [sent EXCEPT ![p] = << >>]
    /\ IF CacheValid(tokenCache, now)
       THEN /\ Resolve(p, tokenCache[1].accessToken)
            /\ UNCHANGED << uuids >>
       ELSE IF ~config.keyOk
       THEN /\ Reject(p, KeyImportError)
            /\ UNCHANGED << uuids >>
       ELSE /\ clientAssertion' = [clientAssertion EXCEPT ![p] =
                                     BuildClientAssertion(uuids, now).jti]
            /\ uuids' = uuids + 1
            /\ IF dpopKeyPair = Null
               THEN /\ pc' = [pc EXCEPT ![p] = "keygen"]
                    /\ keyPair' = keyPair
               ELSE /\ pc' = [pc EXCEPT ![p] = "proof"]
                    /\ keyPair' = [keyPair EXCEPT ![p] = dpopKeyPair[1]]
            /\ UNCHANGED << token, outcome, nHttp, attempt, response,
                            bodyUsed >>
    /\ UNCHANGED << now, config, tokenCache, dpopKeyPair, dpopNonce,
                    rateLimitState, keys, calls, tokenReqs >>
    /\ UNCHANGED << op, sleepMs, sleepKind, wakeAt, nSleeps, n429, received >>
    /\ UNCHANGED << mcp, api >>

\* part_001:27-32: generateKeyPair and exportJWK have resolved.
GenerateKeyPair(p) ==
    /\ pc[p] = "keygen"
    /\ keys' = keys + 1
    /\ dpopKeyPair' = Some(keys + 1)
    /\ keyPair' = [keyPair EXCEPT ![p] = keys + 1]
    /\ pc' = [pc EXCEPT ![p] = IF op[p] = "createDPoPProofForRequest"
                                THEN "claims" ELSE "proof"]
    /\ UNCHANGED << now, config, tokenCache, dpopNonce, rateLimitState, uuids,
                    calls, tokenReqs >>
    /\ UNCHANGED << op, attempt, clientAssertion, response, bodyUsed, sent,
                    token, sleepMs, sleepKind, wakeAt, nHttp, nSleeps, n429,
                    received,
                    outcome >>
    /\ UNCHANGED << mcp, api >>

\* The request fetch() hands to the token endpoint (part_001:120-135): the
\* assertion in the body and the proof in the DPoP header.
TokenRequest(jti, proof) ==
    [assertion |-> jti, proof |-> proof]

\* part_001:45-80, 118-135: the first proof is signed (no explicit nonce,
\* no access token) and the first token request is sent.
SendTokenRequest(p) ==
    /\ pc[p] = "proof"
    /\ sent' = [sent EXCEPT ![p] = Append(@,
          TokenRequest(clientAssertion[p],
              CreateDPoPProof("POST", TokenEndpoint, NoNum, NoStr, dpopNonce,
                              keyPair[p], uuids)))]
    /\ tokenReqs' = Append(tokenReqs, clientAssertion[p])
    /\ uuids' = uuids + 1
    /\ pc' = [pc EXCEPT ![p] = "wait1"]
    /\ UNCHANGED << now, config, tokenCache, dpopKeyPair, dpopNonce,
                    rateLimitState, keys, calls >>
    /\ UNCHANGED << op, attempt, clientAssertion, keyPair, response, bodyUsed,
                    token, sleepMs, sleepKind, wakeAt, nHttp, nSleeps, n429,
                    received,
                    outcome >>
    /\ UNCHANGED << mcp, api >>

\* A test for a challenge that is made of every response;
\* OneNonceRetry tells it from the test of fetchAccessToken.
ChallengeOnEveryResponse(stage, status) == status = 400

\* part_001:138: the test for a challenge is made once, on the response to
\* the first request (stage "wait1"); the response to the second request
\* (159) goes on at 172.
MayBeChallenge(stage, status) == stage = "wait1" /\ status = 400

\* part_001:127, 138, 159, 172-176: a fetch of the token endpoint resolves.
\* A first response with status 400 has its body read before anything
\* else; any other response is the final one and its nonce is stored.
TokenResponse(p, r) ==
    /\ pc[p] \in {"wait1", "wait2"}
    /\ response' = [response EXCEPT ![p] = r]
    /\ IF MayBeChallenge(pc[p], r.status)
       THEN /\ pc' = [pc EXCEPT ![p] = "text400"]
            /\ dpopNonce' = dpopNonce
       ELSE /\ pc' = [pc EXCEPT ![p] = "body"]
            /\ dpopNonce' = UpdatedNonce(dpopNonce, r.nonce)
    /\ UNCHANGED << now, config, tokenCache, dpopKeyPair, rateLimitState,
                    uuids, keys, calls, tokenReqs >>
    /\ UNCHANGED << op, attempt, clientAssertion, keyPair, bodyUsed, sent,
                    token, sleepMs, sleepKind, wakeAt, nHttp, nSleeps, n429,
                    received,
                    outcome >>
    /\ UNCHANGED << mcp, api >>

\* part_001:127, 159: a fetch of the token endpoint rejects (network fault).
TokenFetchFails(p) ==
    /\ pc[p] \in {"wait1", "wait2"}
    /\ Reject(p, FetchFailed)
    /\ UNCHANGED globals
    /\ UNCHANGED << op, sent, sleepMs, sleepKind, wakeAt, nSleeps, n429,
                    received >>
    /\ UNCHANGED << mcp, api >>

\* part_001:139-181: the body of a first 400 response has been read.
\*   A nonce challenge stores the nonce, builds a new assertion and a new
\*   proof with that nonce, and sends the second request.
\*   Otherwise the response is final: its nonce is stored, and since it is
\*   not ok its body is read a second time, which rejects.
ReadChallengeBody(p) ==
    /\ pc[p] = "text400"
    /\ IF IsNonceChallenge(response[p])
       THEN /\ dpopNonce' = response[p].nonce
            /\ clientAssertion' = [clientAssertion EXCEPT ![p] =
                                      BuildClientAssertion(uuids, now).jti]
            /\ keyPair' = [keyPair EXCEPT ![p] = dpopKeyPair[1]]
            /\ sent' = [sent EXCEPT ![p] = Append(@,
                  TokenRequest(BuildClientAssertion(uuids, now).jti,
                      CreateDPoPProof("POST", TokenEndpoint, NoNum,
                                      response[p].nonce, response[p].nonce,
                                      dpopKeyPair[1], uuids + 1)))]
            /\ tokenReqs' = Append(tokenReqs,
                                   BuildClientAssertion(uuids, now).jti)
            /\ uuids' = uuids + 2
            /\ pc' = [pc EXCEPT ![p] = "wait2"]
            /\ bodyUsed' = [bodyUsed EXCEPT ![p] = TRUE]
            /\ UNCHANGED << token, outcome, nHttp, attempt, response >>
       ELSE /\ dpopNonce' = UpdatedNonce(dpopNonce, response[p].nonce)
            /\ Reject(p, BodyUsedError)
            /\ UNCHANGED << sent, tokenReqs, uuids >>
    /\ UNCHANGED << now, config, tokenCache, dpopKeyPair, rateLimitState,
                    keys, calls >>
    /\ UNCHANGED << op, sleepMs, sleepKind, wakeAt, nSleeps, n429, received >>
    /\ UNCHANGED << mcp, api >>

\* The access_token of a success body: the token endpoint issues a new
\* bearer value for every grant, named here by the assertion it answers.
IssuedToken(p) == clientAssertion[p]

\* part_001:178-196, 207-208: the body of the final response has been read.
\*   Not ok: throw.  Ok: the entry is built, getAccessToken stores it in
\*   tokenCache and returns its accessToken.
ReadTokenBody(p) ==
    /\ pc[p] = "body"
    /\ IF ~ResponseOk(response[p].status)
       THEN /\ Reject(p, TokenRequestFailed(response[p].status))
            /\ tokenCache' = tokenCache
       ELSE /\ tokenCache' = Some(NewTokenCache(IssuedToken(p),
                                                response[p].expiresIn, now))
            /\ Resolve(p, NewTokenCache(IssuedToken(p),
                             response[p].expiresIn, now).accessToken)
    /\ UNCHANGED << now, config, dpopKeyPair, dpopNonce, rateLimitState,
                    uuids, keys, calls, tokenReqs >>
    /\ UNCHANGED << op, sent, sleepMs, sleepKind, wakeAt, nSleeps, n429,
                    received >>
    /\ UNCHANGED << mcp, api >>

\* clearTokenCache (part_001:214-216).  The history variable keeps what
\* the call found: the entry, which callers were in no call, and how many
\* token requests had been sent.
ClearTokenCache ==
    /\ tokenCache' = Null
    /\ cleared' = Some([entry |-> tokenCache,
                        callers |-> {p \in Procs : pc[p] \in {"idle", "done"}},
                        tokenReqs |-> Len(tokenReqs)])
    /\ UNCHANGED << now, config, dpopKeyPair, dpopNonce, rateLimitState,
                    uuids, keys, calls, tokenReqs >>
    /\ UNCHANGED locals
    /\ UNCHANGED << mcp, proofCall >>

\* updateDPoPNonce(nonce) (part_001:232-236); NoStr is null.
UpdateDPoPNonce(nonce) ==
    /\ dpopNonce' = UpdatedNonce(dpopNonce, nonce)
    /\ UNCHANGED << now, config, tokenCache, dpopKeyPair, rateLimitState,
                    uuids, keys, calls, tokenReqs >>
    /\ UNCHANGED locals
    /\ UNCHANGED << mcp, api >>

\* A caller invokes createDPoPProofForRequest(htm, htu, accessToken)
\* (part_001:221-227, 45): dpopNonce || undefined is evaluated for the call
\* of createDPoPProof, which asks for the key pair.
CallCreateDPoPProofForRequest(p, htm, htu, accessToken) ==
    /\ pc[p] \in {"idle", "done"}
    /\ calls < MaxCalls
    /\ calls' = calls + 1
    /\ op' = [op EXCEPT ![p] = "createDPoPProofForRequest"]
    /\ outcome' = [outcome EXCEPT ![p] = NoOutcome]
    /\ proofCall' = [proofCall EXCEPT ![p] =
                        ProofCall(htm, htu, accessToken, dpopNonce)]
    /\ IF dpopKeyPair = Null
       THEN /\ pc' = [pc EXCEPT ![p] = "keygen"]
            /\ keyPair' = keyPair
       ELSE /\ pc' = [pc EXCEPT ![p] = "claims"]
            /\ keyPair' = [keyPair EXCEPT ![p] = dpopKeyPair[1]]
    /\ UNCHANGED << now, config, tokenCache, dpopKeyPair, dpopNonce,
                    rateLimitState, uuids, keys, tokenReqs >>
    /\ UNCHANGED << attempt, clientAssertion, response, bodyUsed, sent, token,
                    sleepMs, sleepKind, wakeAt, nHttp, nSleeps, n429,
                    received >>
    /\ UNCHANGED << mcp, cleared >>

\* part_001:46-80: the key pair is there; the claims are built, with the
\* shared nonce as it is now, and the proof is signed.
SignProof(p) ==
    /\ pc[p] = "claims"
    /\ proofCall' = [proofCall EXCEPT ![p].proof =
          Some(CreateDPoPProof(proofCall[p].htm, proofCall[p].htu,
                               proofCall[p].accessToken, proofCall[p].nonce,
                               dpopNonce, keyPair[p], uuids))]
    /\ uuids' = uuids + 1
    /\ pc' = [pc EXCEPT ![p] = "done"]
    /\ outcome' = [outcome EXCEPT ![p] = Returned(NoValue)]
    /\ UNCHANGED << now, config, tokenCache, dpopKeyPair, dpopNonce,
                    rateLimitState, keys, calls, tokenReqs >>
    /\ UNCHANGED << op, attempt, clientAssertion, keyPair, response, bodyUsed,
                    sent, token, sleepMs, sleepKind, wakeAt, nHttp, nSleeps,
                    n429, received >>
    /\ UNCHANGED << mcp, cleared >>

\* Time passes.
Tick ==
    /\ now < MaxNow
    /\ now' = now + TickMs
    /\ UNCHANGED << config, tokenCache, dpopKeyPair, dpopNonce,
                    rateLimitState, uuids, keys, calls, tokenReqs >>
    /\ UNCHANGED locals
    /\ UNCHANGED << mcp, api >>

(***************************************************************************)
(* The token manager alone: NumProcs concurrent callers of getAccessToken. *)
(***************************************************************************)
InitToken ==
    /\ InitGlobals
    /\ InitLocals
    /\ InitMcp
    /\ InitApi
    /\ config \in [maxRetries : {DefaultMaxRetries}, keyOk : BOOLEAN]

NextToken ==
    \/ \E p \in Procs : CallGetAccessToken(p)
    \/ \E p \in Procs : GetAccessToken(p)
    \/ \E p \in Procs : GenerateKeyPair(p)
    \/ \E p \in Procs : SendTokenRequest(p)
    \/ \E p \in Procs : \E r \in TokenResponses : TokenResponse(p, r)
    \/ \E p \in Procs : TokenFetchFails(p)
    \/ \E p \in Procs : ReadChallengeBody(p)
    \/ \E p \in Procs : ReadTokenBody(p)
    \/ Tick

SpecToken == InitToken /\ [][NextToken]_vars

(***************************************************************************)
(* client: the answers of a resource endpoint.                             *)
(*   status; the three X-Rate-Limit headers (NoNum: header absent; the     *)
(*   headers carry decimal digits, which parseInt turns into the number);  *)
(*   body: "okta" a JSON error object with errorCode, errorId, errorCauses *)
(*   and errorSummary, "json" any other JSON, "text" not JSON;             *)
(*   link: the Link header, a string (sequence of lexical tokens) or Null. *)
(***************************************************************************)
ErrorStatuses == {400, 401, 403, 404, 422}

RateLimitHeaders ==
    {RateLimit(NoNum, NoNum, NoNum),   \* no quota header
     RateLimit(100, 5, 10),            \* below 10% of the limit
     RateLimit(100, 10, 10),           \* at 10% of the limit
     RateLimit(40, 4, 10),             \* below 5, 10% being less
     RateLimit(40, 5, 10),             \* at 5
     RateLimit(100, 0, 1),             \* exhausted, reset near
     RateLimit(100, 5, 0),             \* reset of 0
     RateLimit(NoNum, 0, 10),          \* no limit header
     RateLimit(100, 0, NoNum)}         \* no reset header

(***************************************************************************)
(* OktaApiError (groups.ts:94-141).                                        *)
(***************************************************************************)
\* JSON.parse of an error body, read as an OktaError (groups.ts:329-334,
\* 345-355, 446-452): the fields an Okta error object has, else none.
OktaErrorBody ==
    [errorCode |-> "E0000001", errorId |-> "oae1", errorCauses |-> << "cause" >>]
\* A decoder that drops the body; NoRetryOnClientError tells it from the
\* decoding of request.
DroppedOktaError(body) == NoOktaError

ParseOktaError(body) ==
    IF body = "okta" THEN OktaErrorBody ELSE NoOktaError

\* oktaError?.errorSummary || `Okta API error: ...` (groups.ts:356-357).
ErrorMessage(body) ==
    IF body = "okta" THEN "errorSummary" ELSE "Okta API error"

(***************************************************************************)
(* Rate limit tracking (groups.ts:169-220).                                *)
(***************************************************************************)
\* An update that takes over the headers that are there, one by one;
\* RateLimitObservation tells it from updateRateLimitState.
MergedHeaders(state, r, t) ==
    IF r.limit = NoNum /\ r.remaining = NoNum /\ r.reset = NoNum
    THEN state
    ELSE Some([limit |-> IF r.limit # NoNum \/ state = Null
                         THEN r.limit ELSE state[1].limit,
               remaining |-> IF r.remaining # NoNum \/ state = Null
                             THEN r.remaining ELSE state[1].remaining,
               reset |-> IF r.reset # NoNum \/ state = Null
                         THEN r.reset ELSE state[1].reset,
               lastUpdated |-> t])

\* updateRateLimitState (groups.ts:178-191).
UpdateRateLimitState(state, r, t) ==
    IF r.limit # NoNum /\ r.remaining # NoNum /\ r.reset # NoNum
    THEN Some([limit |-> r.limit, remaining |-> r.remaining,
               reset |-> r.reset, lastUpdated |-> t])
    ELSE state

\* getRateLimitInfo (groups.ts:193-205).  resetTime ? ... : undefined takes
\* a reset of 0 for no reset.
GetRateLimitInfo(r, t) ==
    [retryAfterMs |-> IF r.reset # NoNum /\ r.reset # 0
                      THEN Max(0, r.reset * 1000 - t) + 1000
                      ELSE NoNum,
     remaining |-> r.remaining,
     reset |-> r.reset]

\* Math.min(1000 * Math.pow(2, attempt), 30000) (groups.ts:320, 340).
BackoffBaseMs == 1000
BackoffCapMs == 30000
\* A backoff without the cap; BackoffBound tells it from the backoff of
\* request.
UncappedBackoff(a) == BackoffBaseMs * Pow2(a)

Backoff(a) == Min(BackoffBaseMs * Pow2(a), BackoffCapMs)

\* A wait that ignores the reset header; RateLimitWait tells it from the
\* wait of request.
AlwaysBackoff(r, a, t) == Backoff(a)

\* rateLimitInfo.retryAfterMs || backoff (groups.ts:320).
WaitMs(r, a, t) ==
    IF GetRateLimitInfo(r, t).retryAfterMs \notin {NoNum, 0}
    THEN GetRateLimitInfo(r, t).retryAfterMs
    ELSE Backoff(a)

\* Durations are exact quotients num / den of milliseconds.
Ms(n) == [num |-> n, den |-> 1]

\* proactiveRateLimitDelay (groups.ts:207-220): the argument of its sleep,
\* NoSleep when it does not sleep.
\*   remaining < Math.max(5, limit * 0.1), both sides taken times ten;
\*   delayMs = Math.min(timeUntilReset / Math.max(1, remaining), 2000).
ThresholdFloor == 5
ProactiveCapMs == 2000
\* A threshold of 10% of the limit without the floor of 5;
\* ProactiveThrottling tells it from proactiveRateLimitDelay.
BelowTenPercent(st) == 10 * st.remaining < st.limit

BelowThreshold(st) ==
    10 * st.remaining < Max(10 * ThresholdFloor, st.limit)
ProactiveDelay(state, t) ==
    IF state = Null THEN NoSleep
    ELSE IF ~BelowThreshold(state[1]) THEN NoSleep
    ELSE IF state[1].reset * 1000 - t <= 0 THEN NoSleep
    ELSE IF state[1].reset * 1000 - t
                <= ProactiveCapMs * Max(1, state[1].remaining)
    THEN [num |-> state[1].reset * 1000 - t,
          den |-> Max(1, state[1].remaining)]
    ELSE Ms(ProactiveCapMs)

\* sleep (groups.ts:271-273): setTimeout fires after the whole milliseconds
\* of its argument, and after 1 ms for less.
TimerMs(d) == Max(1, d.num \div d.den)

(***************************************************************************)
(* Pagination (groups.ts:242-266).  A string is the sequence of its        *)
(* lexical tokens: the delimiters < > ; , ? & and the space, the relation  *)
(* parameters rel="next" and rel="prev", an origin with a path, a bare     *)
(* path, the parameter names with their = sign, runs of unreserved         *)
(* characters, and the escape %2C of the comma.                            *)
(***************************************************************************)
RelNext == "rel=\"next\""
RelPrev == "rel=\"prev\""
Origin == "https://host/api/v1/items"
BarePath == "/api/v1/items"

RECURSIVE IndexOf(_, _, _)
\* The least i >= from with s[i] = c, or 0.
IndexOf(s, c, from) ==
    IF from > Len(s) THEN 0
    ELSE IF s[from] = c THEN from
    ELSE IndexOf(s, c, from + 1)

RECURSIVE Split(_, _)
\* String.prototype.split(sep) for a one-token separator.
Split(s, sep) ==
    IF IndexOf(s, sep, 1) = 0 THEN << s >>
    ELSE << SubSeq(s, 1, IndexOf(s, sep, 1) - 1) >>
         \o Split(SubSeq(s, IndexOf(s, sep, 1) + 1, Len(s)), sep)

RECURSIVE SkipSpaces(_, _)
\* \s* from position i on: the position of the first token that is no space.
SkipSpaces(s, i) ==
    IF i <= Len(s) /\ s[i] = " " THEN SkipSpaces(s, i + 1) ELSE i

\* link.match(/<([^>]+)>;\s*rel="next"/) with its "<" at position i: the
\* position of the closing ">" or 0.  [^>]+ ends at the first ">" after i.
MatchAt(link, i) ==
    IF link[i] # "<" THEN 0
    ELSE LET j == IndexOf(link, ">", i + 1)
         IN  IF /\ j > i + 1
                /\ j + 1 <= Len(link)
                /\ link[j + 1] = ";"
                /\ SkipSpaces(link, j + 2) <= Len(link)
                /\ link[SkipSpaces(link, j + 2)] = RelNext
             THEN j
             ELSE 0

\* The capture group of the leftmost match of one link, or Null.
MatchLink(link) ==
    LET starts == {i \in 1 .. Len(link) : MatchAt(link, i) # 0}
    IN  IF starts = {} THEN Null
        ELSE LET i == CHOOSE k \in starts : \A m \in starts : k <= m
             IN  Some(SubSeq(link, i + 1, MatchAt(link, i) - 1))

RECURSIVE FirstMatch(_)
FirstMatch(links) ==
    IF links = << >> THEN Null
    ELSE IF MatchLink(Head(links)) # Null THEN MatchLink(Head(links))
    ELSE FirstMatch(Tail(links))

\* A parser that takes the URL of the first entry whatever its relation;
\* PaginatedResult tells it from parseNextLink.
FirstLinkUrl(linkHeader) ==
    IF linkHeader = Null THEN Null
    ELSE Some(SubSeq(linkHeader[1], 2, IndexOf(linkHeader[1], ">", 1) - 1))

\* parseNextLink (groups.ts:242-253).
ParseNextLink(linkHeader) ==
    IF linkHeader = Null THEN Null
    ELSE FirstMatch(Split(linkHeader[1], ","))

RECURSIVE PercentDecode(_)
\* URLSearchParams decodes the escapes of a value.
PercentDecode(v) ==
    IF v = << >> THEN << >>
    ELSE << IF Head(v) = "%2C" THEN "," ELSE Head(v) >>
         \o PercentDecode(Tail(v))

RECURSIVE PercentEncode(_)
\* URLSearchParams escapes the comma of a value when it serializes it.
PercentEncode(v) ==
    IF v = << >> THEN << >>
    ELSE << IF Head(v) = "," THEN "%2C" ELSE Head(v) >>
         \o PercentEncode(Tail(v))

RECURSIVE GetParam(_, _)
\* URLSearchParams.get(name) over the parameters of a query, split at "&":
\* the decoded value of the first parameter of that name, or Null.
GetParam(params, name) ==
    IF params = << >> THEN Null
    ELSE IF Head(params) # << >> /\ Head(Head(params)) = name
    THEN Some(PercentDecode(Tail(Head(params))))
    ELSE GetParam(Tail(params), name)

\* new URL(s).searchParams.get(name): Null when s is no absolute URL (the
\* constructor throws), has no query or has no such parameter.
SearchParam(url, name) ==
    IF url = << >> \/ Head(url) # Origin THEN Null
    ELSE IF IndexOf(url, "?", 1) = 0 THEN Null
    ELSE GetParam(Split(SubSeq(url, IndexOf(url, "?", 1) + 1, Len(url)), "&"),
                  name)

\* extractAfterCursor (groups.ts:258-266).
ExtractAfterCursor(nextLink) ==
    IF nextLink = Null THEN Null
    ELSE IF SearchParam(nextLink[1], "after=") \in {Null, Some(<< >>)} THEN Null
    ELSE SearchParam(nextLink[1], "after=")

(***************************************************************************)
(* Link headers and resource responses of the request model.               *)
(***************************************************************************)
ExampleNextUrl == << Origin, "?", "after=", "abc123" >>
ExampleLinkHeader == << "<" >> \o ExampleNextUrl \o << ">", ";", " ", RelNext >>

RequestLinks == {Null, Some(ExampleLinkHeader)}

FewRateLimitHeaders ==
    {RateLimit(NoNum, NoNum, NoNum), RateLimit(100, 5, 10)}

ApiResponses ==
    {ApiResponse(st, rl, b, Null) :
        st \in {429, 500}, rl \in RateLimitHeaders, b \in {"okta", "text"}}
    \cup {ApiResponse(st, rl, b, Null) :
            st \in ErrorStatuses \cup {503}, rl \in FewRateLimitHeaders,
            b \in {"okta", "text"}}
    \cup {ApiResponse(200, rl, b, l) :
            rl \in FewRateLimitHeaders, b \in {"json", "text"},
            l \in RequestLinks}
    \cup {WithNonce(ApiResponse(st, RateLimit(NoNum, NoNum, NoNum), b, Null),
                     "n2") :
            st \in {200, 401}, b \in {"json"}}

\* The answers of the token endpoint in the request model.
RequestTokenResponses ==
    {r \in TokenResponses :
        \/ r.status = 200 /\ r.nonce = NoStr
        \/ r.status = 400 /\ r.body = "use_dpop_nonce" /\ r.nonce = "n1"
        \/ r.status = 401 /\ r.nonce = NoStr}

(***************************************************************************)
(* request and paginatedRequest (groups.ts:281-484).                       *)
(***************************************************************************)
Operations == {"request", "paginatedRequest"}

\* A caller invokes client.request(options) or client.paginatedRequest
\* (options): attempt = 0 (groups.ts:294-296, 396-398).
BeginRequest(p, o) ==
    /\ pc[p] \in {"idle", "done"}
    /\ calls' = calls + 1
    /\ op' = [op EXCEPT ![p] = o]
    /\ pc' = [pc EXCEPT ![p] = "delay"]
    /\ attempt' = [attempt EXCEPT ![p] = 0]
    /\ nHttp' = [nHttp EXCEPT ![p] = 0]
    /\ nSleeps' = [nSleeps EXCEPT ![p] = 0]
    /\ n429' = [n429 EXCEPT ![p] = 0]
    /\ received' = [received EXCEPT ![p] = NoApiResponse]
    /\ outcome' = [outcome EXCEPT ![p] = NoOutcome]
    /\ UNCHANGED << now, config, tokenCache, dpopKeyPair, dpopNonce,
                    rateLimitState, uuids, keys, tokenReqs >>
    /\ UNCHANGED << clientAssertion, keyPair, response, bodyUsed, sent, token,
                    sleepMs, sleepKind, wakeAt >>

\* The calls of one client, one after the other.
StartRequest(p, o) ==
    /\ calls < MaxRequests
    /\ BeginRequest(p, o)

\* A caller other than a tool handler invokes the client.
CallRequest(p, o) ==
    /\ StartRequest(p, o)
    /\ UNCHANGED << mcp, api >>

\* await sleep(d): the timer is set.
StartSleep(p, d, kind) ==
    /\ sleepMs' = [sleepMs EXCEPT ![p] = d]
    /\ sleepKind' = [sleepKind EXCEPT ![p] = kind]
    /\ wakeAt' = [wakeAt EXCEPT ![p] = now + TimerMs(d)]

EndSleep(p) ==
    /\ sleepMs' = [sleepMs EXCEPT ![p] = NoSleep]
    /\ sleepKind' = [sleepKind EXCEPT ![p] = "none"]
    /\ wakeAt' = [wakeAt EXCEPT ![p] = 0]

\* An attempt that goes to the token without the proactive delay;
\* AttemptOrdering tells it from the head of the loop of request.
NoProactiveDelay(p) ==
    /\ pc[p] = "delay"
    /\ pc' = [pc EXCEPT ![p] = "token"]
    /\ received' = [received EXCEPT ![p] = NoApiResponse]
    /\ UNCHANGED globals
    /\ UNCHANGED << op, attempt, clientAssertion, keyPair, response, bodyUsed,
                    sent, token, nHttp, nSleeps, n429, outcome, sleepMs,
                    sleepKind, wakeAt >>
    /\ UNCHANGED << mcp, api >>

\* groups.ts:298, 400 with 207-220: the head of an attempt; the response of
\* the attempt before is out of scope.
ProactiveRateLimitDelay(p) ==
    /\ pc[p] = "delay"
    /\ IF ProactiveDelay(rateLimitState, now) = NoSleep
       THEN /\ pc' = [pc EXCEPT ![p] = "token"]
            /\ UNCHANGED << sleepMs, sleepKind, wakeAt >>
       ELSE /\ pc' = [pc EXCEPT ![p] = "pdsleep"]
            /\ StartSleep(p, ProactiveDelay(rateLimitState, now), "proactive")
    /\ received' = [received EXCEPT ![p] = NoApiResponse]
    /\ UNCHANGED globals
    /\ UNCHANGED << op, attempt, clientAssertion, keyPair, response, bodyUsed,
                    sent, token, nHttp, nSleeps, n429, outcome >>
    /\ UNCHANGED << mcp, api >>

\* The timer of the proactive sleep fires; getAccessToken is next.
ProactiveSleepDone(p) ==
    /\ pc[p] = "pdsleep"
    /\ now' = Max(now, wakeAt[p])
    /\ pc' = [pc EXCEPT ![p] = "token"]
    /\ EndSleep(p)
    /\ UNCHANGED << config, tokenCache, dpopKeyPair, dpopNonce,
                    rateLimitState, uuids, keys, calls, tokenReqs >>
    /\ UNCHANGED << op, attempt, clientAssertion, keyPair, response, bodyUsed,
                    sent, token, nHttp, nSleeps, n429, received, outcome >>
    /\ UNCHANGED << mcp, api >>

\* The timer of a retry sleep fires: continue, attempt++ (groups.ts:296,
\* 323-324, 340-341).
RetrySleepDone(p) ==
    /\ pc[p] = "sleep"
    /\ now' = Max(now, wakeAt[p])
    /\ attempt' = [attempt EXCEPT ![p] = @ + 1]
    /\ pc' = [pc EXCEPT ![p] = "delay"]
    /\ EndSleep(p)
    /\ UNCHANGED << config, tokenCache, dpopKeyPair, dpopNonce,
                    rateLimitState, uuids, keys, calls, tokenReqs >>
    /\ received' = [received EXCEPT ![p] = NoApiResponse]
    /\ UNCHANGED << op, clientAssertion, keyPair, response, bodyUsed, sent,
                    token, nHttp, nSleeps, n429, outcome >>
    /\ UNCHANGED << mcp, api >>

\* A retry sleep that paginatedRequest takes twice as long as request;
\* SharedRetryPolicy tells it from the sleep the two operations share.
PagedRetryAfterSleep(p, ms) ==
    /\ pc' = [pc EXCEPT ![p] = "sleep"]
    /\ StartSleep(p, Ms(IF op[p] = "paginatedRequest" THEN 2 * ms ELSE ms),
                  "retry")
    /\ nSleeps' = [nSleeps EXCEPT ![p] = @ + 1]
    /\ UNCHANGED << attempt, outcome >>

\* The ways an attempt goes on after its response.
RetryAfterSleep(p, ms) ==
    /\ pc' = [pc EXCEPT ![p] = "sleep"]
    /\ StartSleep(p, Ms(ms), "retry")
    /\ nSleeps' = [nSleeps EXCEPT ![p] = @ + 1]
    /\ UNCHANGED << attempt, outcome >>

Throw(p, e) ==
    /\ pc' = [pc EXCEPT ![p] = "done"]
    /\ outcome' = [outcome EXCEPT ![p] = Raised(e)]
    /\ UNCHANGED << attempt, sleepMs, sleepKind, wakeAt, nSleeps >>

\* A return that drops the decoded payload; RetriesReachSuccess tells it
\* from the return of request.
ReturnNothing(p, v) ==
    /\ pc' = [pc EXCEPT ![p] = "done"]
    /\ outcome' = [outcome EXCEPT ![p] = Returned(NoValue)]
    /\ UNCHANGED << attempt, sleepMs, sleepKind, wakeAt, nSleeps >>

Return(p, v) ==
    /\ pc' = [pc EXCEPT ![p] = "done"]
    /\ outcome' = [outcome EXCEPT ![p] = Returned(v)]
    /\ UNCHANGED << attempt, sleepMs, sleepKind, wakeAt, nSleeps >>

\* What paginatedRequest returns for a success response (groups.ts:459-468).
Page(r) ==
    [accessToken |-> NoNum, data |-> r.body,
     nextLink |-> ParseNextLink(r.link),
     nextAfter |-> ExtractAfterCursor(ParseNextLink(r.link))]

\* groups.ts:303-312, 405-414: the credentials in the headers of the fetch
\* of the resource URL: Authorization: Bearer <token>, and no DPoP header.
RequestHeaders(accessToken) ==
    [scheme |-> "Bearer", token |-> accessToken, dpop |-> Null]

\* groups.ts:303-362, 405-468: the fetch of the resource URL resolves with
\* response r.
ResourceResponse(p, r) ==
    /\ pc[p] = "fetch"
    /\ rateLimitState' = UpdateRateLimitState(rateLimitState, r, now)
    /\ n429' = [n429 EXCEPT ![p] = IF r.status = 429 THEN @ + 1 ELSE @]
    /\ received' = [received EXCEPT ![p] = r]
    /\ token' = [token EXCEPT ![p] = NoToken]
    /\ IF r.status = 429
       THEN IF HasAttemptsLeft(attempt[p], config.maxRetries)
            THEN RetryAfterSleep(p, WaitMs(r, attempt[p], now))
            ELSE Throw(p, OktaApiError(429, "Rate limit exceeded",
                              ParseOktaError(r.body), GetRateLimitInfo(r, now)))
       ELSE IF r.status >= 500 /\ HasAttemptsLeft(attempt[p], config.maxRetries)
       THEN RetryAfterSleep(p, Backoff(attempt[p]))
       ELSE IF ~ResponseOk(r.status)
       THEN Throw(p, OktaApiError(r.status, ErrorMessage(r.body),
                         ParseOktaError(r.body), GetRateLimitInfo(r, now)))
       ELSE IF op[p] = "request"
       THEN Return(p, [NoValue EXCEPT !.data = r.body])
       ELSE IF r.body = "text"
       THEN /\ Catch(p, JsonSyntaxError)
            /\ UNCHANGED << sleepMs, sleepKind, wakeAt, nSleeps >>
       ELSE Return(p, Page(r))
    /\ UNCHANGED << now, config, tokenCache, dpopKeyPair, dpopNonce, uuids,
                    keys, calls, tokenReqs >>
    /\ UNCHANGED << op, clientAssertion, keyPair, response, bodyUsed, sent,
                    nHttp >>
    /\ UNCHANGED << mcp, api >>

\* groups.ts:303-312, 363-375: the fetch rejects, with a network fault or
\* with the TimeoutError of AbortSignal.timeout(config.timeoutMs).
ResourceFetchFails(p, e) ==
    /\ pc[p] = "fetch"
    /\ Catch(p, e)
    /\ token' = [token EXCEPT ![p] = NoToken]
    /\ UNCHANGED globals
    /\ UNCHANGED << op, clientAssertion, keyPair, response, bodyUsed, sent,
                    sleepMs, sleepKind, wakeAt, nHttp, nSleeps, n429, received >>
    /\ UNCHANGED << mcp, api >>

(***************************************************************************)
(* The client: Clients call request and paginatedRequest, one call after   *)
(* the other, against a token endpoint and a resource endpoint that may    *)
(* answer anything.                                                        *)
(***************************************************************************)
Clients == {1}

InitRequest ==
    /\ InitGlobals
    /\ InitLocals
    /\ InitMcp
    /\ InitApi
    /\ config \in [maxRetries : 0 .. MaxRetriesBound, keyOk : BOOLEAN]

NextRequest ==
    \/ \E p \in Clients : \E o \in Operations : CallRequest(p, o)
    \/ \E p \in Clients : ProactiveRateLimitDelay(p)
    \/ \E p \in Clients : ProactiveSleepDone(p)
    \/ \E p \in Clients : GetAccessToken(p)
    \/ \E p \in Clients : GenerateKeyPair(p)
    \/ \E p \in Clients : SendTokenRequest(p)
    \/ \E p \in Clients : \E r \in RequestTokenResponses : TokenResponse(p, r)
    \/ \E p \in Clients : TokenFetchFails(p)
    \/ \E p \in Clients : ReadChallengeBody(p)
    \/ \E p \in Clients : ReadTokenBody(p)
    \/ \E p \in Clients : \E r \in ApiResponses : ResourceResponse(p, r)
    \/ \E p \in Clients : \E e \in {FetchFailed, FetchTimeout} :
            ResourceFetchFails(p, e)
    \/ \E p \in Clients : RetrySleepDone(p)
    \/ Tick

SpecRequest == InitRequest /\ [][NextRequest]_vars

(***************************************************************************)
(* Long retry chains: one client with maxRetries = MaxBackoffRetries, a    *)
(* token endpoint that grants tokens and a resource endpoint that answers  *)
(* 429 and 5xx, with and without quota headers, or 200.                    *)
(***************************************************************************)
MaxBackoffRetries == 6

BackoffTokenResponses ==
    {r \in TokenResponses :
        r.status = 200 /\ r.nonce = NoStr /\ r.expiresIn = 61}

BackoffResponses ==
    {ApiResponse(st, rl, "text", Null) :
        st \in {429, 500, 503},
        rl \in {RateLimit(NoNum, NoNum, NoNum), RateLimit(100, 5, 0),
                RateLimit(100, 50, 100)}}
    \cup {ApiResponse(200, RateLimit(NoNum, NoNum, NoNum), "json", Null)}

InitBackoff ==
    /\ InitGlobals
    /\ InitLocals
    /\ InitMcp
    /\ InitApi
    /\ config = [maxRetries |-> MaxBackoffRetries, keyOk |-> TRUE]

NextBackoff ==
    \/ \E p \in Clients : \E o \in Operations : CallRequest(p, o)
    \/ \E p \in Clients : ProactiveRateLimitDelay(p)
    \/ \E p \in Clients : GetAccessToken(p)
    \/ \E p \in Clients : GenerateKeyPair(p)
    \/ \E p \in Clients : SendTokenRequest(p)
    \/ \E p \in Clients : \E r \in BackoffTokenResponses : TokenResponse(p, r)
    \/ \E p \in Clients : ReadTokenBody(p)
    \/ \E p \in Clients : \E r \in BackoffResponses : ResourceResponse(p, r)
    \/ \E p \in Clients : RetrySleepDone(p)

SpecBackoff == InitBackoff /\ [][NextBackoff]_vars

(***************************************************************************)
(* Pages: one client calls paginatedRequest against a resource endpoint    *)
(* that answers 200 with a JSON body and any Link header of LinkHeaders.   *)
(***************************************************************************)
MaxEntries == 2        \* entries of a Link header

\* URLs of a Link entry: the example of the README, a cursor with a comma
\* (raw and escaped), other parameters, no cursor, no query, a relative
\* reference, an empty cursor.
LinkUrls ==
    {ExampleNextUrl,
     << Origin, "?", "after=", "a", ",", "b" >>,
     << Origin, "?", "after=", "a", "%2C", "b" >>,
     << Origin, "?", "limit=", "20", "&", "after=", "abc123" >>,
     << Origin, "?", "limit=", "20" >>,
     << Origin >>,
     << BarePath, "?", "after=", "abc123" >>,
     << Origin, "?", "after=" >>}

LinkEntry(url, rel) == << "<" >> \o url \o << ">", ";", " ", rel >>

LinkEntrySet == {LinkEntry(u, rel) : u \in LinkUrls, rel \in {RelNext, RelPrev}}

\* Headers.get("Link") joins the entries with ", ".
RECURSIVE HeadersOf(_)
HeadersOf(n) ==
    IF n = 1 THEN LinkEntrySet
    ELSE HeadersOf(n - 1)
         \cup {h \o << ",", " " >> \o e : h \in HeadersOf(n - 1), e \in LinkEntrySet}

LinkHeaders == {Null} \cup {Some(h) : h \in HeadersOf(MaxEntries)}

LinkResponses ==
    {ApiResponse(200, RateLimit(NoNum, NoNum, NoNum), "json", l) :
        l \in LinkHeaders}

LinkTokenResponses ==
    {r \in TokenResponses : r.status = 200 /\ r.nonce = NoStr}

InitLink ==
    /\ InitGlobals
    /\ InitLocals
    /\ InitMcp
    /\ InitApi
    /\ config = [maxRetries |-> DefaultMaxRetries, keyOk |-> TRUE]

NextLink ==
    \/ \E p \in Clients : CallRequest(p, "paginatedRequest")
    \/ \E p \in Clients : ProactiveRateLimitDelay(p)
    \/ \E p \in Clients : GetAccessToken(p)
    \/ \E p \in Clients : GenerateKeyPair(p)
    \/ \E p \in Clients : SendTokenRequest(p)
    \/ \E p \in Clients : \E r \in LinkTokenResponses : TokenResponse(p, r)
    \/ \E p \in Clients : ReadTokenBody(p)
    \/ \E p \in Clients : \E r \in LinkResponses : ResourceResponse(p, r)

SpecLink == InitLink /\ [][NextLink]_vars

(***************************************************************************)
(* Properties of the token manager (SpecToken).                            *)
(***************************************************************************)

\* Call p of getAccessToken returns in this step.
GetAccessTokenReturns(p) ==
    /\ op[p] = "getAccessToken"
    /\ pc[p] # "done"
    /\ pc'[p] = "done"
    /\ outcome'[p].state = "returned"

\* C1 Token freshness: whenever a call of getAccessToken returns, on a cache
\* hit or right after a refresh, the returned bearer value is the one of the
\* cache entry, and that entry's expiresAt is strictly greater than the time
\* of the return.
TokenFreshness ==
    [][\A p \in Procs :
          GetAccessTokenReturns(p)
          => /\ tokenCache' # Null
             /\ tokenCache'[1].accessToken = outcome'[p].value.accessToken
             /\ now' < tokenCache'[1].expiresAt]_vars

\* The positions of a call inside fetchAccessToken.
AcquisitionPcs == {"keygen", "proof", "wait1", "text400", "wait2", "body"}
InFlight == {p \in Procs : pc[p] \in AcquisitionPcs}

\* C2 Single-flight refresh: at most one acquisition (fetchAccessToken) is
\* in flight at any time, however many callers invoke getAccessToken while
\* the cache is empty or expired.
SingleFlight == Cardinality(InFlight) <= 1

\* C3 Assertion uniqueness: the client assertions submitted to the token
\* endpoint, by first requests, by nonce retries and by concurrent
\* acquisitions, have pairwise distinct jti.
AssertionUniqueness ==
    \A i, j \in 1 .. Len(tokenReqs) :
        i # j => tokenReqs[i] # tokenReqs[j]

\* Two acquisitions have submitted assertions, one of them a nonce retry.
AssertionUniquenessWitness ==
    \E p, q \in Procs :
        /\ p # q
        /\ Len(sent[p]) = 2
        /\ Len(sent[q]) >= 1
        /\ Len(tokenReqs) >= 3

\* C4 Nonce adaptation: when the first response of an acquisition is a 400
\* with use_dpop_nonce and a DPoP-Nonce header N, exactly one more token
\* request is sent, its proof embeds N and its assertion is new; when the
\* second response is a success, no further request is sent, the returned
\* token is cached and the acquisition resolves with it.
NonceAdaptation ==
    [][\A p \in Procs :
          /\ (pc[p] = "text400" /\ pc'[p] # "text400"
                  /\ IsNonceChallenge(response[p]))
             => /\ pc'[p] = "wait2"
                /\ Len(sent[p]) = 1
                /\ Len(sent'[p]) = 2
                /\ sent'[p][1] = sent[p][1]
                /\ sent'[p][2].proof.nonce = response[p].nonce
                /\ sent'[p][2].assertion # sent'[p][1].assertion
                /\ tokenReqs' = Append(tokenReqs, sent'[p][2].assertion)
          /\ (pc[p] = "body" /\ pc'[p] # "body" /\ Len(sent[p]) = 2
                  /\ ResponseOk(response[p].status))
             => /\ sent'[p] = sent[p]
                /\ tokenReqs' = tokenReqs
                /\ tokenCache' # Null
                /\ tokenCache'[1].accessToken = sent[p][2].assertion
                /\ pc'[p] = "done"
                /\ outcome'[p] = Returned([NoValue EXCEPT
                       !.accessToken = sent[p][2].assertion])]_vars

\* A challenged acquisition has succeeded with its second request.
NonceAdaptationWitness ==
    \E p \in Procs :
        /\ pc[p] = "done"
        /\ outcome[p].state = "returned"
        /\ Len(sent[p]) = 2
        /\ sent[p][1].proof.nonce = NoStr
        /\ sent[p][2].proof.nonce \in NonceValues
        /\ tokenCache # Null
        /\ tokenCache[1].accessToken = sent[p][2].assertion
        /\ outcome[p].value.accessToken = sent[p][2].assertion

(***************************************************************************)
(* Properties of request and paginatedRequest (SpecRequest, SpecBackoff).  *)
(***************************************************************************)

\* The response to the fetch of call p arrives in this step.
ResponseArrives(p) ==
    /\ pc[p] = "fetch"
    /\ pc'[p] # "fetch"
    /\ received'[p] # NoApiResponse

\* C5 Retry exhaustion: a call with maxRetries = R that has ended after
\* receiving 429 on every attempt has made exactly R + 1 HTTP attempts and
\* exactly R retry sleeps, none of them after the last response, and has
\* failed with an error of status 429 and type rate_limit_error.
RetryExhaustion ==
    \A p \in Clients :
        (pc[p] = "done" /\ op[p] \in Operations /\ n429[p] = attempt[p] + 1)
        => /\ attempt[p] = config.maxRetries
           /\ nHttp[p] = config.maxRetries + 1
           /\ n429[p] = config.maxRetries + 1
           /\ nSleeps[p] = config.maxRetries
           /\ sleepKind[p] = "none"
           /\ outcome[p].state = "raised"
           /\ outcome[p].error.name = "OktaApiError"
           /\ outcome[p].error.status = 429
           /\ outcome[p].error.errorType = "rate_limit_error"

\* maxRetries = 2: three 429 responses, two retry sleeps, the terminal error.
RetryExhaustionWitness ==
    \E p \in Clients :
        /\ config.maxRetries = 2
        /\ pc[p] = "done"
        /\ n429[p] = 3
        /\ nHttp[p] = 3
        /\ nSleeps[p] = 2
        /\ outcome[p].error.errorType = "rate_limit_error"

\* The error type the README gives for a status below 500 that is no 429.
ClientErrorType(status) ==
    IF status \in {401, 403} THEN "auth_error"
    ELSE IF status = 404 THEN "not_found_error"
    ELSE IF status \in {400, 422} THEN "validation_error"
    ELSE "api_error"

\* C6 No retry on client errors: a response with a status that is not 2xx,
\* not 429 and below 500 ends the call in the step in which it arrives, on
\* any attempt: no sleep is started, no attempt is added, and the error
\* carries the status, its type, and the errorCode, errorId and errorCauses
\* of an Okta error body; nothing happens in the call afterwards.
NoRetryOnClientError ==
    [][\A p \in Clients :
          /\ (/\ ResponseArrives(p)
              /\ ~ResponseOk(received'[p].status)
              /\ received'[p].status # 429
              /\ received'[p].status < 500)
             => /\ pc'[p] = "done"
                /\ nSleeps'[p] = nSleeps[p]
                /\ nHttp'[p] = nHttp[p]
                /\ attempt'[p] = attempt[p]
                /\ sleepKind'[p] = "none"
                /\ outcome'[p].state = "raised"
                /\ outcome'[p].error.name = "OktaApiError"
                /\ outcome'[p].error.status = received'[p].status
                /\ outcome'[p].error.errorType =
                       ClientErrorType(received'[p].status)
                /\ outcome'[p].error.oktaError =
                       IF received'[p].body = "okta"
                       THEN [errorCode |-> "E0000001", errorId |-> "oae1",
                             errorCauses |-> << "cause" >>]
                       ELSE NoOktaError
          /\ (pc[p] = "done" /\ pc'[p] = "done")
             => /\ nHttp'[p] = nHttp[p]
                /\ nSleeps'[p] = nSleeps[p]
                /\ outcome'[p] = outcome[p]]_vars

\* A single 422 with an Okta error body, retries being allowed: the call has
\* failed with a validation error after one attempt and no sleep.
NoRetryOnClientErrorWitness ==
    \E p \in Clients :
        /\ config.maxRetries = 2
        /\ pc[p] = "done"
        /\ received[p].status = 422
        /\ nHttp[p] = 1
        /\ nSleeps[p] = 0
        /\ attempt[p] = 0
        /\ outcome[p].error.errorType = "validation_error"
        /\ outcome[p].error.oktaError.errorCode = "E0000001"

\* The response carries no server retry hint: getRateLimitInfo gives no
\* retryAfterMs without a reset header and for a reset of 0.
NoRetryHint(r) == r.reset \in {NoNum, 0}

\* C7 Backoff bound: the retry sleep started on attempt index k after a 5xx
\* response, and after a 429 response without server retry hint, is
\* min(1000 * 2^k, 30000) ms.
BackoffBound ==
    [][\A p \in Clients :
          (/\ ResponseArrives(p)
           /\ pc'[p] = "sleep"
           /\ \/ received'[p].status >= 500
              \/ received'[p].status = 429 /\ NoRetryHint(received'[p]))
          => /\ sleepKind'[p] = "retry"
             /\ sleepMs'[p] = [num |-> Min(1000 * Pow2(attempt[p]), 30000),
                               den |-> 1]
             /\ wakeAt'[p] = now + Min(1000 * Pow2(attempt[p]), 30000)]_vars

\* The sixth retry sleep (k = 5) after a 5xx response has been started: it
\* is the first one the cap of 30000 ms shortens.
BackoffBoundWitness ==
    \E p \in Clients :
        /\ pc[p] = "sleep"
        /\ attempt[p] = 5
        /\ received[p].status >= 500
        /\ sleepMs[p] = [num |-> 30000, den |-> 1]

\* C8 Proactive throttling: at the head of an attempt the call sleeps
\* min(timeUntilReset / max(1, remaining), 2000) ms, a positive time of at
\* most 2000 ms, exactly when a rate-limit state is recorded, remaining is
\* below max(5, limit / 10) and the reset lies in the future; in every other
\* case it does not sleep.
ProactiveThrottling ==
    [][\A p \in Clients :
          (pc[p] = "delay" /\ pc'[p] # "delay")
          => IF /\ rateLimitState # Null
                /\ 10 * rateLimitState[1].remaining
                       < Max(50, rateLimitState[1].limit)
                /\ rateLimitState[1].reset * 1000 > now
             THEN LET T == rateLimitState[1].reset * 1000 - now
                      m == Max(1, rateLimitState[1].remaining)
                      d == sleepMs'[p]
                  IN  /\ pc'[p] = "pdsleep"
                      /\ sleepKind'[p] = "proactive"
                      /\ d.den > 0
                      /\ IF T <= 2000 * m
                         THEN d.num * m = T * d.den
                         ELSE d.num = 2000 * d.den
                      /\ d.num > 0
                      /\ d.num <= 2000 * d.den
             ELSE /\ pc'[p] = "token"
                  /\ sleepKind'[p] = "none"
                  /\ sleepMs'[p] = NoSleep]_vars

\* limit = 100, remaining = 5, reset 10 s ahead: the call is in its
\* proactive sleep of 10000 / 5 = 2000 ms.
ProactiveThrottlingWitness ==
    \E p \in Clients :
        /\ pc[p] = "pdsleep"
        /\ rateLimitState # Null
        /\ rateLimitState[1].limit = 100
        /\ rateLimitState[1].remaining = 5
        /\ rateLimitState[1].reset * 1000 - now = 10000
        /\ sleepMs[p].num = 2000 * sleepMs[p].den
        /\ wakeAt[p] = now + 2000

\* Progress measure of a call: the attempts left, then the way left inside
\* the attempt.
Position(at) ==
    CASE at = "delay" -> 12
      [] at = "pdsleep" -> 11
      [] at = "token" -> 10
      [] at = "keygen" -> 9
      [] at = "proof" -> 8
      [] at = "wait1" -> 7
      [] at = "text400" -> 6
      [] at = "wait2" -> 5
      [] at = "body" -> 4
      [] at = "fetch" -> 3
      [] at = "sleep" -> 2
      [] OTHER -> 0

Rank(at, a) == (config.maxRetries - a) * 13 + Position(at)

RECURSIVE LinkValues(_)
\* The entries of a header: the URL and the parameters of each.
LinkValues(h) ==
    IF h = << >> THEN << >>
    ELSE IF Head(h) # "<" THEN LinkValues(Tail(h))
    ELSE LET close == IndexOf(h, ">", 2)
             comma == IF close = 0 THEN 0 ELSE IndexOf(h, ",", close + 1)
             last == IF comma = 0 THEN Len(h) ELSE comma - 1
         IN  IF close = 0 THEN << >>
             ELSE << [url |-> SubSeq(h, 2, close - 1),
                      params |-> SubSeq(h, close + 1, last)] >>
                  \o (IF comma = 0 THEN << >>
                      ELSE LinkValues(SubSeq(h, comma + 1, Len(h))))

\* The URL of the first entry marked rel="next", or Null.
FirstNextUrl(header) ==
    IF header = Null THEN Null
    ELSE LET es == LinkValues(header[1])
             nexts == {i \in 1 .. Len(es) :
                          \E k \in 1 .. Len(es[i].params) :
                              es[i].params[k] = RelNext}
         IN  IF nexts = {} THEN Null
             ELSE Some(es[CHOOSE i \in nexts : \A j \in nexts : i <= j].url)

RECURSIVE Unescaped(_)
Unescaped(v) ==
    IF v = << >> THEN << >>
    ELSE << IF Head(v) = "%2C" THEN "," ELSE Head(v) >> \o Unescaped(Tail(v))

RECURSIVE AfterIn(_)
\* The value of the first after parameter of a query; a parameter ends at
\* the next "&".
AfterIn(q) ==
    IF q = << >> THEN Null
    ELSE LET amp == IndexOf(q, "&", 1)
             this == IF amp = 0 THEN q ELSE SubSeq(q, 1, amp - 1)
         IN  IF this # << >> /\ Head(this) = "after="
             THEN Some(Unescaped(Tail(this)))
             ELSE IF amp = 0 THEN Null
             ELSE AfterIn(SubSeq(q, amp + 1, Len(q)))

\* The cursor of a next URL: its after parameter, when it has a value.
AfterOf(nextUrl) ==
    IF nextUrl = Null THEN Null
    ELSE LET q == IndexOf(nextUrl[1], "?", 1)
             v == IF q = 0 THEN Null
                  ELSE AfterIn(SubSeq(nextUrl[1], q + 1, Len(nextUrl[1])))
         IN  IF v = Some(<< >>) THEN Null ELSE v

\* C9 Pagination cursor: in the result of a successful paginatedRequest,
\* nextLink is the URL of the first Link-header entry marked rel="next",
\* nextAfter is the value of the after parameter of that URL, and nextAfter
\* sent back as the after query parameter arrives at the server as the
\* same cursor.
PaginationCursor ==
    \A p \in Clients :
        (pc[p] = "done" /\ op[p] = "paginatedRequest"
            /\ outcome[p].state = "returned")
        => /\ outcome[p].value.nextLink = FirstNextUrl(received[p].link)
           /\ outcome[p].value.nextAfter
                  = AfterOf(FirstNextUrl(received[p].link))
           /\ outcome[p].value.nextAfter # Null
              => Unescaped(PercentEncode(outcome[p].value.nextAfter[1]))
                     = AfterOf(FirstNextUrl(received[p].link))[1]

(***************************************************************************)
(* Properties of the resource calls and of their errors (SpecRequest).     *)
(***************************************************************************)

\* C11 Proof-bound resource calls: every fetch of a resource URL, on the
\* first attempt and on every retry, carries Authorization: DPoP <token>
\* and a DPoP proof bound to the token sent (its ath is that token).
ProofBoundCalls ==
    \A p \in Clients :
        pc[p] = "fetch"
        => /\ RequestHeaders(token[p]).scheme = "DPoP"
           /\ RequestHeaders(token[p]).token = token[p]
           /\ RequestHeaders(token[p]).dpop # Null
           /\ RequestHeaders(token[p]).dpop[1].ath = Sha256(token[p])

\* The members of ErrorType (groups.ts:63-70).
ErrorTypes ==
    {"api_error", "validation_error", "rate_limit_error", "network_error",
     "auth_error", "not_found_error", "unknown_error"}

\* C13 Error classification: the type of the OktaApiError a call ends with
\* is one of the ErrorTypes and follows from the HTTP status of the
\* response alone: 429 rate_limit_error, 401 and 403 auth_error, 404
\* not_found_error, 400 and 422 validation_error, 500 and above api_error.
ErrorClassification ==
    \A p \in Clients :
        (pc[p] = "done" /\ outcome[p].state = "raised"
            /\ outcome[p].error.name = "OktaApiError")
        => LET e == outcome[p].error
           IN  /\ e.errorType \in ErrorTypes
               /\ received[p] # NoApiResponse => e.status = received[p].status
               /\ e.status = 429 => e.errorType = "rate_limit_error"
               /\ e.status \in {401, 403} => e.errorType = "auth_error"
               /\ e.status = 404 => e.errorType = "not_found_error"
               /\ e.status \in {400, 422} => e.errorType = "validation_error"
               /\ e.status >= 500 => e.errorType = "api_error"

\* A call that was answered 503 on its retry too ends with an api_error.
ErrorClassificationWitness ==
    \E p \in Clients :
        /\ pc[p] = "done" /\ outcome[p].state = "raised"
        /\ attempt[p] >= 1
        /\ received[p].status = 503
        /\ outcome[p].error.status = 503
        /\ outcome[p].error.errorType = "api_error"

\* C14 Rate-limit error content: the error of a call whose last permitted
\* attempt was answered 429 is a rate_limit_error that carries a
\* retryAfterMs and the remaining and reset of the headers of that
\* response.
RateLimitErrorContent ==
    \A p \in Clients :
        (pc[p] = "done" /\ outcome[p].state = "raised"
            /\ received[p].status = 429)
        => LET e == outcome[p].error
           IN  /\ e.errorType = "rate_limit_error"
               /\ e.rateLimitInfo.retryAfterMs # NoNum
               /\ e.rateLimitInfo.remaining = received[p].remaining
               /\ e.rateLimitInfo.reset = received[p].reset

\* C20 Decode failures are not retried: a call that receives a 2xx
\* response whose body is not JSON ends on that attempt, whatever attempts
\* remain.
DecodeFailureEndsCall ==
    [][\A p \in Clients :
          (/\ pc[p] = "fetch"
           /\ received[p] = NoApiResponse
           /\ received'[p] # NoApiResponse
           /\ ResponseOk(received'[p].status)
           /\ received'[p].body = "text")
          => /\ pc'[p] = "done"
             /\ attempt'[p] = attempt[p]]_vars

(***************************************************************************)
(* Properties of the token cache and of the proof key (SpecToken).         *)
(***************************************************************************)

\* C16 Failure leaves the cache untouched: tokenCache changes only in the
\* step in which an acquisition succeeds, to the entry of the token that
\* acquisition returns, so an acquisition that fails (import failure,
\* network fault, response that is not 2xx) leaves it as it was; and a call
\* that finds the cache absent or expired is not served from it but starts
\* an acquisition.
FailureKeepsCache ==
    [][/\ tokenCache' # tokenCache
          => \E p \in Procs :
                 /\ pc[p] = "body"
                 /\ response[p].status \in 200 .. 299
                 /\ outcome'[p].state = "returned"
                 /\ tokenCache' # Null
                 /\ tokenCache'[1].accessToken
                        = outcome'[p].value.accessToken
       /\ \A p \in Procs :
              /\ (pc[p] # "done" /\ pc'[p] = "done"
                     /\ outcome'[p].state = "raised")
                 => tokenCache' = tokenCache
              /\ (pc[p] = "token" /\ pc'[p] # "token"
                     /\ (tokenCache = Null \/ now >= tokenCache[1].expiresAt))
                 => \/ /\ pc'[p] \in {"keygen", "proof"}
                       /\ clientAssertion'[p] # NoNum
                    \/ /\ ~config.keyOk
                       /\ outcome'[p].state = "raised"]_vars

\* The only caller there is was granted a token that has expired, called
\* again and failed at the token endpoint: the expired entry is still in
\* the cache.
FailureKeepsCacheWitness ==
    \E p \in Procs :
        /\ \A q \in Procs \ {p} : pc[q] = "idle"
        /\ pc[p] = "done" /\ outcome[p].state = "raised"
        /\ outcome[p].error.status = 401
        /\ tokenCache # Null
        /\ now >= tokenCache[1].expiresAt

\* C17 Proof key created once: at most one DPoP key pair is ever
\* generated, also when two proofs are started before a key exists, and
\* every proof sent carries the JWK of the key pair the module holds.
ProofKeyOnce ==
    /\ keys <= 1
    /\ \A p \in Procs :
           \A i \in 1 .. Len(sent[p]) :
               /\ dpopKeyPair # Null
               /\ sent[p][i].proof.jwk = dpopKeyPair[1]

(***************************************************************************)
(* Properties of the pages (SpecLink).                                     *)
(***************************************************************************)

\* The header has an entry marked rel="next".
HasRelNext(header) ==
    /\ header # Null
    /\ \E i \in 1 .. Len(header[1]) : header[1][i] = RelNext

\* C18 Paginated result invariant: in a result of paginatedRequest
\* nextAfter is present only if nextLink is, nextAfter is the after
\* parameter of nextLink and the same for every response that yields the
\* same nextLink, and a response without a rel="next" link yields neither
\* nextAfter nor nextLink.
PaginatedResult ==
    \A p \in Clients :
        (pc[p] = "done" /\ op[p] = "paginatedRequest"
            /\ outcome[p].state = "returned")
        => LET v == outcome[p].value
           IN  /\ v.nextAfter # Null => v.nextLink # Null
               /\ v.nextAfter # Null => v.nextAfter = AfterOf(v.nextLink)
               /\ \A r \in LinkResponses :
                      Page(r).nextLink = v.nextLink
                      => Page(r).nextAfter = v.nextAfter
               /\ ~HasRelNext(received[p].link)
                  => v.nextLink = Null /\ v.nextAfter = Null

\* The last page: its header has a rel="prev" entry only, and neither
\* member is present.
PaginatedResultWitness ==
    \E p \in Clients :
        /\ pc[p] = "done" /\ op[p] = "paginatedRequest"
        /\ outcome[p].state = "returned"
        /\ received[p].link = Some(LinkEntry(ExampleNextUrl, RelPrev))
        /\ outcome[p].value.nextLink = Null
        /\ outcome[p].value.nextAfter = Null

(***************************************************************************)
(* The MCP server (part_003): error helpers and fields projection.         *)
(***************************************************************************)
\* getSuggestionForError (groups.ts:143-160).
GetSuggestionForError(type, statusCode) ==
    CASE type = "rate_limit_error" ->
             "Rate limit exceeded. Wait for retryAfterMs before retrying, or reduce request frequency."
      [] type = "auth_error" ->
             "Authentication failed. Verify OKTA_CLIENT_ID, OKTA_PRIVATE_KEY, and that required scopes are granted."
      [] type = "not_found_error" ->
             "Resource not found. Verify the ID is correct using the corresponding list tool."
      [] type = "validation_error" ->
             "Invalid request parameters. Check the details array for specific field errors."
      [] type = "network_error" ->
             "Network error occurred. Check connectivity and OKTA_DOMAIN configuration."
      [] type = "api_error" ->
             IF statusCode >= 500
             THEN "Okta server error. This is typically transient - retry after a brief delay."
             ELSE "API error occurred. Check the errorCode and details for more information."
      [] OTHER -> "An unexpected error occurred. Check the error details and retry."

\* OktaApiError.toStructured (groups.ts:124-140).
ToStructured(e, t) ==
    StructuredError(GetErrorType(e.status), e.msg, e.status, e.oktaError,
                    GetSuggestionForError(GetErrorType(e.status), e.status),
                    e.rateLimitInfo, t)

\* error.message.includes(word), for the messages of the errors above.
MessageIncludes(msg, word) == msg = "fetch failed" /\ word = "fetch"

\* createStructuredError (part_003:22-51).
CreateStructuredError(e, t) ==
    IF e.name = "OktaApiError" THEN ToStructured(e, t)
    ELSE LET message == IF e.msg = "" THEN "Unknown error" ELSE e.msg
         IN  IF e.name \in {"AbortError", "TimeoutError"}
             THEN StructuredError("network_error", message, NoNum,
                      NoOktaError,
                      "Request timed out. Check network connectivity or increase timeout.",
                      NoRateLimitInfo, t)
             ELSE IF e.name = "TypeError" /\ MessageIncludes(e.msg, "fetch")
             THEN StructuredError("network_error", message, NoNum,
                      NoOktaError,
                      "Network error occurred. Check OKTA_DOMAIN configuration and connectivity.",
                      NoRateLimitInfo, t)
             ELSE IF \/ MessageIncludes(e.msg, "ENOTFOUND")
                     \/ MessageIncludes(e.msg, "ECONNREFUSED")
             THEN StructuredError("network_error", message, NoNum,
                      NoOktaError,
                      "Could not connect to Okta. Verify OKTA_DOMAIN is correct.",
                      NoRateLimitInfo, t)
             ELSE StructuredError("unknown_error", message, NoNum,
                      NoOktaError,
                      "An unexpected error occurred. Check the error details and retry.",
                      NoRateLimitInfo, t)

\* The separators of raw.split(/[\s,]+/).
Separators == {" ", ","}

\* How many tokens at the head of s are no separators.
RECURSIVE WordLen(_)
WordLen(s) ==
    IF s = << >> \/ Head(s) \in Separators THEN 0 ELSE 1 + WordLen(Tail(s))

\* raw.split(/[\s,]+/) without the empty strings, which filter(Boolean)
\* removes.
RECURSIVE Words(_)
Words(s) ==
    IF s = << >> THEN << >>
    ELSE IF Head(s) \in Separators THEN Words(Tail(s))
    ELSE << SubSeq(s, 1, WordLen(s)) >>
         \o Words(SubSeq(s, WordLen(s) + 1, Len(s)))

\* String.prototype.trim.
RECURSIVE Trim(_)
Trim(s) ==
    IF s = << >> THEN s
    ELSE IF Head(s) = " " THEN Trim(Tail(s))
    ELSE IF s[Len(s)] = " " THEN Trim(SubSeq(s, 1, Len(s) - 1))
    ELSE s

\* The items that are strings, trimmed, without the empty ones.
RECURSIVE TrimmedStrings(_)
TrimmedStrings(items) ==
    IF items = << >> THEN << >>
    ELSE (IF Head(items).kind = "string" /\ Trim(Head(items).str) # << >>
          THEN << Trim(Head(items).str) >> ELSE << >>)
         \o TrimmedStrings(Tail(items))

\* Array.from(new Set(fields)): the first occurrence of every value.
RECURSIVE Distinct(_)
Distinct(s) ==
    IF s = << >> THEN << >>
    ELSE LET init == Distinct(SubSeq(s, 1, Len(s) - 1))
         IN  IF \E i \in 1 .. Len(init) : init[i] = s[Len(s)]
             THEN init ELSE Append(init, s[Len(s)])

\* parseTopLevelFields (part_003:53-72) for the fields member raw of the
\* arguments: Null is undefined.
ParseTopLevelFields(raw) ==
    LET values == IF raw.kind = "array" THEN TrimmedStrings(raw.items)
                  ELSE IF raw.kind = "string" THEN Words(raw.str)
                  ELSE << >>
    IN  IF values = << >> THEN Null ELSE Some(Distinct(values))

\* Object.prototype.hasOwnProperty.call(record, key) and record[key].
HasOwnProperty(record, key) ==
    \E i \in 1 .. Len(record.members) : record.members[i].key = key

Get(record, key) ==
    record.members[CHOOSE i \in 1 .. Len(record.members) :
                       record.members[i].key = key].value

\* The loop of projectTopLevel (part_003:79-84): the requested keys the
\* record has, in the order of fields.
RECURSIVE Pick(_, _)
Pick(record, fields) ==
    IF fields = << >> THEN << >>
    ELSE (IF HasOwnProperty(record, Head(fields))
          THEN << Member(Head(fields), Get(record, Head(fields))) >>
          ELSE << >>)
         \o Pick(record, Tail(fields))

\* projectTopLevel (part_003:74-86).
RECURSIVE ProjectTopLevel(_, _)
ProjectTopLevel(value, fields) ==
    IF value.kind \notin {"object", "array"} THEN value
    ELSE IF value.kind = "array"
    THEN JArray([i \in 1 .. Len(value.items) |->
                    ProjectTopLevel(value.items[i], fields)])
    ELSE JObject(Pick(value, fields))

\* A projection that treats a paginated result like any other object;
\* FieldsProjection tells it from applyFieldsProjection.
ProjectWholeResult(result, fields) ==
    IF fields = Null THEN result ELSE ProjectTopLevel(result, fields[1])

\* applyFieldsProjection (part_003:88-109).
ApplyFieldsProjection(result, fields) ==
    IF fields = Null THEN result
    ELSE IF result.kind = "array"
    THEN JArray([i \in 1 .. Len(result.items) |->
                    ProjectTopLevel(result.items[i], fields[1])])
    ELSE IF result.kind = "object"
    THEN IF /\ HasOwnProperty(result, << "items" >>)
            /\ Get(result, << "items" >>).kind = "array"
         THEN JObject([i \in 1 .. Len(result.members) |->
                  IF result.members[i].key = << "items" >>
                  THEN Member(<< "items" >>,
                           JArray([k \in 1 .. Len(result.members[i].value.items) |->
                               ProjectTopLevel(
                                   result.members[i].value.items[k],
                                   fields[1])]))
                  ELSE result.members[i]])
         ELSE ProjectTopLevel(result, fields[1])
    ELSE result

(***************************************************************************)
(* The CallTool handler (part_003:143-185) on top of the client: a tool    *)
(* call looks the tool up, awaits its handler, which validates the         *)
(* arguments and awaits one call of the client (part_004), and returns     *)
(* the projected result or the structured error.                           *)
(***************************************************************************)
\* One list tool and one get tool of part_004, with the client operation
\* their handlers call.
ToolNames == {"okta_groups_list", "iga_campaigns_get"}
ToolOperation(name) ==
    IF name = "okta_groups_list" THEN "paginatedRequest" ELSE "request"

\* The names a caller asks for.
RequestedNames == ToolNames \cup {"no_such_tool"}

\* What schema.parse(input) throws for arguments the schema rejects.
ZodError == Error("ZodError", "invalid arguments", NoNum)

\* The document a JSON body decodes to; request hands on the text of a
\* body that is not JSON (groups.ts:345-352).
ExampleItems ==
    JArray(<< JObject(<< Member(<< "id" >>, JString(<< "g1" >>)),
                         Member(<< "name" >>, JString(<< "admins" >>)) >>),
              JObject(<< Member(<< "id" >>, JString(<< "g2" >>)) >>) >>)

JsonParse(body) ==
    IF body = "json" THEN ExampleItems ELSE JString(<< body >>)

Optional(x) == IF x = Null THEN Undefined ELSE JString(x[1])

\* What the handler resolves to: what request returned, or the
\* { items, nextAfter, nextLink } of paginatedRequest (groups.ts:464-468).
HandlerValue(o, v) ==
    IF o = "request" THEN JsonParse(v.data)
    ELSE JObject(<< Member(<< "items" >>, JsonParse(v.data)),
                    Member(<< "nextAfter" >>, Optional(v.nextAfter)),
                    Member(<< "nextLink" >>, Optional(v.nextLink)) >>)

\* The fields arguments of the tool calls of the server model.
ToolFields == {Undefined, JArray(<< JString(<< "id" >>) >>)}

\* part_003:143-160, 163 and part_004: a tools/call request arrives.  An
\* unknown name is answered at once; the handler of a known tool rejects
\* arguments its schema does not accept and otherwise calls the client.
CallTool(p, name, fields, valid) ==
    /\ pc[p] \in {"idle", "done"}
    /\ toolCall[p] = NoToolCall \/ toolResult[p].state = "returned"
    /\ calls < MaxRequests
    /\ UNCHANGED api
    /\ toolCall' = [toolCall EXCEPT ![p] = ToolCall(name, fields, valid)]
    /\ IF name \notin ToolNames
       THEN /\ toolResult' = [toolResult EXCEPT ![p] =
                  ToolResult(TRUE,
                      JObject(<< Member(<< "error" >>,
                                     JString(<< "Unknown tool: ", name >>)) >>),
                      NoStructuredError)]
            /\ handlerResult' = [handlerResult EXCEPT ![p] = NoHandlerResult]
            /\ calls' = calls + 1
            /\ UNCHANGED << now, config, tokenCache, dpopKeyPair, dpopNonce,
                            rateLimitState, uuids, keys, tokenReqs >>
            /\ UNCHANGED locals
       ELSE IF ~valid
       THEN /\ toolResult' = [toolResult EXCEPT ![p] = NoToolResult]
            /\ handlerResult' = [handlerResult EXCEPT ![p] = Rejected(ZodError)]
            /\ calls' = calls + 1
            /\ UNCHANGED << now, config, tokenCache, dpopKeyPair, dpopNonce,
                            rateLimitState, uuids, keys, tokenReqs >>
            /\ UNCHANGED locals
       ELSE /\ toolResult' = [toolResult EXCEPT ![p] = NoToolResult]
            /\ handlerResult' = [handlerResult EXCEPT ![p] = NoHandlerResult]
            /\ StartRequest(p, ToolOperation(name))

\* part_004: the call of the client has settled, and with it the promise
\* of the handler, which returns what the client function returns.
HandlerSettles(p) ==
    /\ toolCall[p].name \in ToolNames
    /\ handlerResult[p].state = "none"
    /\ toolResult[p].state = "none"
    /\ pc[p] = "done"
    /\ handlerResult' = [handlerResult EXCEPT ![p] =
          IF outcome[p].state = "returned"
          THEN Resolved(HandlerValue(op[p], outcome[p].value))
          ELSE Rejected(outcome[p].error)]
    /\ UNCHANGED << globals, locals, toolCall, toolResult, api >>

\* part_003:162-184: the continuation of await tool.handler(...).
ToolReturns(p) ==
    /\ handlerResult[p].state # "none"
    /\ toolResult[p].state = "none"
    /\ toolResult' = [toolResult EXCEPT ![p] =
          IF handlerResult[p].state = "resolved"
          THEN ToolResult(FALSE,
                   ApplyFieldsProjection(handlerResult[p].value,
                       ParseTopLevelFields(toolCall[p].fields)),
                   NoStructuredError)
          ELSE ToolResult(TRUE, Undefined,
                   CreateStructuredError(handlerResult[p].error, now))]
    /\ UNCHANGED << globals, locals, toolCall, handlerResult, api >>

\* The answers of the resource endpoint in the server model.
ToolApiResponses ==
    {ApiResponse(st, rl, b, Null) :
        st \in {404, 429, 503}, rl \in FewRateLimitHeaders,
        b \in {"okta", "text"}}
    \cup {ApiResponse(200, RateLimit(NoNum, NoNum, NoNum), b, l) :
            b \in {"json", "text"}, l \in RequestLinks}

InitTool ==
    /\ InitGlobals
    /\ InitLocals
    /\ InitMcp
    /\ InitApi
    /\ config \in [maxRetries : 0 .. MaxRetriesBound, keyOk : BOOLEAN]

NextTool ==
    \/ \E p \in Clients : \E name \in RequestedNames : \E f \in ToolFields :
            \E valid \in BOOLEAN : CallTool(p, name, f, valid)
    \/ \E p \in Clients : ProactiveRateLimitDelay(p)
    \/ \E p \in Clients : ProactiveSleepDone(p)
    \/ \E p \in Clients : GetAccessToken(p)
    \/ \E p \in Clients : GenerateKeyPair(p)
    \/ \E p \in Clients : SendTokenRequest(p)
    \/ \E p \in Clients : \E r \in RequestTokenResponses : TokenResponse(p, r)
    \/ \E p \in Clients : TokenFetchFails(p)
    \/ \E p \in Clients : ReadChallengeBody(p)
    \/ \E p \in Clients : ReadTokenBody(p)
    \/ \E p \in Clients : \E r \in ToolApiResponses : ResourceResponse(p, r)
    \/ \E p \in Clients : \E e \in {FetchFailed, FetchTimeout} :
            ResourceFetchFails(p, e)
    \/ \E p \in Clients : RetrySleepDone(p)
    \/ \E p \in Clients : HandlerSettles(p)
    \/ \E p \in Clients : ToolReturns(p)
    \/ Tick

SpecTool == InitTool /\ [][NextTool]_vars

(***************************************************************************)
(* Properties of the tool calls (SpecTool).                                *)
(***************************************************************************)

\* C12 One structured outcome per call: every tool call ends either with
\* the decoded payload of a call of the client that succeeded, or, marked
\* as an error, with one structured error that has a type, a message, a
\* suggestion and a timestamp.
OneStructuredOutcome ==
    \A p \in Clients :
        toolResult[p].state = "returned"
        => LET r == toolResult[p]
           IN  \/ /\ ~r.isError
                  /\ r.error = NoStructuredError
                  /\ outcome[p].state = "returned"
                  /\ handlerResult[p].state = "resolved"
                  /\ r.payload.kind # "undefined"
               \/ /\ r.isError
                  /\ r.payload = Undefined
                  /\ r.error.type \in ErrorTypes
                  /\ r.error.message \notin {NoStr, ""}
                  /\ r.error.suggestion \notin {NoStr, ""}
                  /\ r.error.timestamp # NoNum
                  /\ handlerResult[p].state = "rejected"

\* C15 Timeouts are network errors: a tool call whose call of the client
\* ended because the last permitted attempt timed out (the client raises
\* "Request timeout after N ms" for it) returns a structured error of type
\* network_error.
TimeoutIsNetworkError ==
    \A p \in Clients :
        (/\ toolResult[p].state = "returned"
         /\ handlerResult[p].state = "rejected"
         /\ \/ IsTimeout(handlerResult[p].error)
            \/ handlerResult[p].error.msg = "Request timeout")
        => toolResult[p].error.type = "network_error"

(***************************************************************************)
(* Fields projection alone: the handler of a tool has resolved to a list   *)
(* result, bare or paginated, of at most MaxItems items, and the CallTool  *)
(* handler returns it projected to the fields of the arguments.            *)
(***************************************************************************)
MaxItems == 2          \* items of a list result

JNull == JValue("null", << >>, << >>, << >>)

\* The items of the results: objects with some of the keys id, name and
\* status, in different orders, and null.
ItemValues ==
    {JObject(<< Member(<< "id" >>, JString(<< "1" >>)),
                Member(<< "name" >>, JString(<< "a" >>)),
                Member(<< "status" >>, JString(<< "x" >>)) >>),
     JObject(<< Member(<< "name" >>, JString(<< "b" >>)),
                Member(<< "id" >>, JString(<< "2" >>)) >>),
     JObject(<< Member(<< "status" >>, JString(<< "y" >>)) >>),
     JObject(<< >>),
     JNull}

RECURSIVE ListsOf(_)
ListsOf(n) ==
    IF n = 0 THEN {<< >>}
    ELSE ListsOf(n - 1)
         \cup {Append(l, v) : l \in {k \in ListsOf(n - 1) : Len(k) = n - 1},
                              v \in ItemValues}

\* What a list tool resolves to: { items, nextAfter, nextLink }, with or
\* without a next page (groups.ts:464-468).
Paginated(items, nextLink) ==
    JObject(<< Member(<< "items" >>, JArray(items)),
               Member(<< "nextAfter" >>,
                      Optional(ExtractAfterCursor(nextLink))),
               Member(<< "nextLink" >>, Optional(nextLink)) >>)

ListResults ==
    {JArray(l) : l \in ListsOf(MaxItems)}
    \cup {Paginated(l, n) : l \in ListsOf(MaxItems),
                            n \in {Null, Some(ExampleNextUrl)}}

\* The fields member of the arguments: absent, lists and strings.
FieldsArguments ==
    {Undefined,
     JArray(<< >>),
     JArray(<< JNull >>),
     JArray(<< JString(<< "id" >>) >>),
     JArray(<< JString(<< "name" >>), JString(<< "id" >>) >>),
     JArray(<< JString(<< "id" >>), JString(<< "name" >>),
               JString(<< "id" >>) >>),
     JArray(<< JString(<< " ", "id", " " >>) >>),
     JArray(<< JString(<< "missing" >>) >>),
     JString(<< "id", ",", "name" >>),
     JString(<< " ", "id", ",", " ", "status", "," >>),
     JString(<< "name", " ", "items" >>),
     JString(<< " " >>)}

InitProjection ==
    /\ InitGlobals
    /\ InitLocals
    /\ InitApi
    /\ config = [maxRetries |-> DefaultMaxRetries, keyOk |-> TRUE]
    /\ \E r \in ListResults : \E f \in FieldsArguments :
           /\ toolCall = [p \in Procs |->
                 IF p \in Clients
                 THEN ToolCall(IF r.kind = "array" THEN "iga_campaigns_get"
                               ELSE "okta_groups_list", f, TRUE)
                 ELSE NoToolCall]
           /\ handlerResult = [p \in Procs |->
                 IF p \in Clients THEN Resolved(r) ELSE NoHandlerResult]
    /\ toolResult = [p \in Procs |-> NoToolResult]

NextProjection ==
    \/ \E p \in Clients : ToolReturns(p)

SpecProjection == InitProjection /\ [][NextProjection]_vars

(***************************************************************************)
(* Properties of the projection (SpecProjection).                          *)
(***************************************************************************)

\* The string s without the blanks around it, if anything is left.
Unpadded(s) ==
    {SubSeq(s, t[1], t[2]) :
        t \in {u \in (1 .. Len(s)) \X (1 .. Len(s)) :
                  /\ u[1] <= u[2]
                  /\ s[u[1]] # " " /\ s[u[2]] # " "
                  /\ \A k \in 1 .. Len(s) :
                         (k < u[1] \/ k > u[2]) => s[k] = " "}}

\* The keys a fields argument asks for: the strings of a list, without
\* the blanks around them, or the pieces of a string between commas and
\* blanks.
RequestedKeys(raw) ==
    IF raw.kind = "array"
    THEN UNION {Unpadded(raw.items[n].str) :
                   n \in {k \in 1 .. Len(raw.items) :
                             raw.items[k].kind = "string"}}
    ELSE IF raw.kind = "string"
    THEN {SubSeq(raw.str, t[1], t[2]) :
             t \in {u \in (1 .. Len(raw.str)) \X (1 .. Len(raw.str)) :
                     /\ u[1] <= u[2]
                     /\ \A k \in u[1] .. u[2] : raw.str[k] \notin {",", " "}
                     /\ u[1] = 1 \/ raw.str[u[1] - 1] \in {",", " "}
                     /\ u[2] = Len(raw.str)
                        \/ raw.str[u[2] + 1] \in {",", " "}}}
    ELSE {}

KeysOf(object) == {object.members[i].key : i \in 1 .. Len(object.members)}

ValuesOf(object, key) ==
    {object.members[i].value :
        i \in {k \in 1 .. Len(object.members) : object.members[k].key = key}}

ItemsOf(result) ==
    IF result.kind = "array" THEN result.items
    ELSE LET i == CHOOSE k \in 1 .. Len(result.members) :
                      result.members[k].key = << "items" >>
         IN  result.members[i].value.items

\* C19 Fields projection: with fields that name at least one key, every
\* item of a list result, bare or paginated, is reduced to the requested
\* keys it has, with their values; the items keep their number and their
\* order, the other members of a paginated result are kept, and projecting
\* the projected result again changes nothing.  Without fields the result
\* is returned unchanged.
FieldsProjection ==
    \A p \in Clients :
        (toolResult[p].state = "returned"
            /\ handlerResult[p].state = "resolved")
        => LET raw == toolCall[p].fields
               r == handlerResult[p].value
               out == toolResult[p].payload
               req == RequestedKeys(raw)
           IN  /\ ~toolResult[p].isError
               /\ req = {} => out = r
               /\ req # {}
                  => /\ out.kind = r.kind
                     /\ Len(out.members) = Len(r.members)
                     /\ \A m \in 1 .. Len(r.members) :
                            /\ out.members[m].key = r.members[m].key
                            /\ r.members[m].key # << "items" >>
                               => out.members[m] = r.members[m]
                     /\ Len(ItemsOf(out)) = Len(ItemsOf(r))
                     /\ \A i \in 1 .. Len(ItemsOf(r)) :
                            LET a == ItemsOf(r)[i]
                                b == ItemsOf(out)[i]
                            IN  IF a.kind # "object" THEN b = a
                                ELSE /\ b.kind = "object"
                                     /\ KeysOf(b) = KeysOf(a) \cap req
                                     /\ Len(b.members) = Cardinality(KeysOf(b))
                                     /\ \A k \in KeysOf(b) :
                                            ValuesOf(b, k) = ValuesOf(a, k)
                     /\ ApplyFieldsProjection(out, ParseTopLevelFields(raw))
                            = out

\* A page of two groups with a next page, asked for " id, status,": the
\* first item keeps id and status, the second id, and the cursor stays.
FieldsProjectionWitness ==
    \E p \in Clients :
        /\ toolResult[p].state = "returned"
        /\ toolCall[p].fields = JString(<< " ", "id", ",", " ", "status", "," >>)
        /\ handlerResult[p].value.kind = "object"
        /\ Len(ItemsOf(handlerResult[p].value)) = 2
        /\ KeysOf(ItemsOf(handlerResult[p].value)[1])
               = {<< "id" >>, << "name" >>, << "status" >>}
        /\ KeysOf(ItemsOf(handlerResult[p].value)[2])
               = {<< "name" >>, << "id" >>}
        /\ KeysOf(ItemsOf(toolResult[p].payload)[1])
               = {<< "id" >>, << "status" >>}
        /\ KeysOf(ItemsOf(toolResult[p].payload)[2]) = {<< "id" >>}
        /\ ValuesOf(toolResult[p].payload, << "nextAfter" >>)
               = {JString(<< "abc123" >>)}

(***************************************************************************)
(* Properties of the retry loop (SpecRequest).                             *)
(***************************************************************************)

\* The fetch of the resource URL of call p rejects in this step: a network
\* fault or a timeout.
FetchRejects(p) ==
    /\ pc[p] = "fetch"
    /\ pc'[p] # "fetch"
    /\ received'[p] = NoApiResponse

\* C21 Network faults back off like 5xx: when the fetch of attempt k
\* rejects and attempts remain, the call starts a retry sleep of
\* min(1000 * 2^k, 30000) ms before the next attempt.
FaultBackoff ==
    [][\A p \in Clients :
          (FetchRejects(p) /\ attempt[p] < config.maxRetries)
          => /\ pc'[p] = "sleep"
             /\ sleepKind'[p] = "retry"
             /\ sleepMs'[p] = [num |-> Min(1000 * Pow2(attempt[p]), 30000),
                               den |-> 1]]_vars

\* C23 Key-import failure is fatal: a call of request or paginatedRequest
\* whose getAccessToken fails at the import of the signing key ends in that
\* step with that error, whatever maxRetries is: no further attempt.
KeyImportFatal ==
    [][\A p \in Clients :
          (/\ pc[p] = "token"
           /\ pc'[p] # "token"
           /\ ~config.keyOk
           /\ tokenCache = Null \/ now >= tokenCache[1].expiresAt)
          => /\ pc'[p] = "done"
             /\ attempt'[p] = attempt[p]
             /\ outcome'[p].state = "raised"
             /\ outcome'[p].error = KeyImportError]_vars

\* C29 5xx handling: a 5xx response with attempts remaining starts one
\* retry sleep of the backoff schedule, after which the next attempt
\* begins; a 5xx response on the last permitted attempt starts no sleep
\* and ends the call with an api_error that carries the status.
ServerErrorHandling ==
    [][\A p \in Clients :
          /\ (ResponseArrives(p) /\ received'[p].status >= 500)
             => IF attempt[p] < config.maxRetries
                THEN /\ pc'[p] = "sleep"
                     /\ sleepKind'[p] = "retry"
                     /\ nSleeps'[p] = nSleeps[p] + 1
                     /\ sleepMs'[p] =
                            [num |-> Min(1000 * Pow2(attempt[p]), 30000),
                             den |-> 1]
                     /\ attempt'[p] = attempt[p]
                     /\ outcome'[p].state = "none"
                ELSE /\ pc'[p] = "done"
                     /\ sleepKind'[p] = "none"
                     /\ nSleeps'[p] = nSleeps[p]
                     /\ outcome'[p].state = "raised"
                     /\ outcome'[p].error.name = "OktaApiError"
                     /\ outcome'[p].error.status = received'[p].status
                     /\ outcome'[p].error.errorType = "api_error"
          /\ (pc[p] = "sleep" /\ sleepKind[p] = "retry" /\ pc'[p] # "sleep")
             => /\ pc'[p] = "delay"
                /\ attempt'[p] = attempt[p] + 1
                /\ now' >= wakeAt[p]]_vars

\* maxRetries = 1: the first 5xx was followed by one sleep and a second
\* attempt, whose 503 ended the call.
ServerErrorHandlingWitness ==
    \E p \in Clients :
        /\ config.maxRetries = 1
        /\ pc[p] = "done"
        /\ attempt[p] = 1
        /\ nHttp[p] = 2
        /\ nSleeps[p] = 1
        /\ received[p].status = 503
        /\ outcome[p].error.status = 503
        /\ outcome[p].error.errorType = "api_error"

\* C30 429 wait: a 429 response with attempts remaining starts a retry
\* sleep of the retry interval the response declares (the time until its
\* X-Rate-Limit-Reset plus one second), and of min(1000 * 2^attempt, 30000)
\* ms only when it declares none; the next attempt follows the sleep.
RateLimitWait ==
    [][\A p \in Clients :
          /\ (/\ ResponseArrives(p)
              /\ received'[p].status = 429
              /\ attempt[p] < config.maxRetries)
             => /\ pc'[p] = "sleep"
                /\ sleepKind'[p] = "retry"
                /\ sleepMs'[p].den = 1
                /\ sleepMs'[p].num =
                       IF received'[p].reset \notin {NoNum, 0}
                       THEN Max(0, received'[p].reset * 1000 - now) + 1000
                       ELSE Min(1000 * Pow2(attempt[p]), 30000)
          /\ (pc[p] = "sleep" /\ sleepKind[p] = "retry" /\ pc'[p] # "sleep"
                 /\ received[p].status = 429)
             => /\ pc'[p] = "delay"
                /\ attempt'[p] = attempt[p] + 1]_vars

\* A 429 whose reset is 10 s after the epoch arrived at time 1000 on the
\* second attempt: the call sleeps 10000 ms, not the 2000 ms of the backoff.
RateLimitWaitWitness ==
    \E p \in Clients :
        /\ pc[p] = "sleep"
        /\ attempt[p] = 1
        /\ received[p].status = 429
        /\ received[p].reset = 10
        /\ now = 1000
        /\ sleepMs[p] = [num |-> 10000, den |-> 1]


(***************************************************************************)
(* Properties of the token exchange (SpecToken).                           *)
(***************************************************************************)
\* Call p of getAccessToken ends in this step, its final response read.
AcquisitionEnds(p) ==
    /\ pc[p] \in {"text400", "body"}
    /\ pc'[p] = "done"

\* C22 Token failures report their status: an acquisition whose final
\* response is not 2xx fails with the error "Token request failed" that
\* carries the status of that response, also when that response is a 400
\* that is no nonce challenge or a challenge without a DPoP-Nonce header.
TokenFailureStatus ==
    [][\A p \in Procs :
          (AcquisitionEnds(p) /\ response[p].status \notin 200 .. 299)
          => /\ outcome'[p].state = "raised"
             /\ outcome'[p].error.name = "Error"
             /\ outcome'[p].error.msg = "Token request failed"
             /\ outcome'[p].error.status = response[p].status]_vars

\* C24 At most one nonce retry: an acquisition sends at most two token
\* requests; the response to the second request is never read as a
\* challenge, and when it is a nonce challenge again the acquisition fails
\* with an error and no further token request is sent.
OneNonceRetry ==
    [][\A p \in Procs :
          /\ Len(sent'[p]) <= 2
          /\ (pc[p] = "wait2" /\ pc'[p] # "wait2")
             => pc'[p] \in {"body", "done"}
          /\ (/\ pc[p] = "body" /\ pc'[p] # "body"
              /\ Len(sent[p]) = 2
              /\ response[p].status = 400
              /\ response[p].body = "use_dpop_nonce")
             => /\ pc'[p] = "done"
                /\ outcome'[p].state = "raised"
                /\ outcome'[p].error.status = 400
                /\ sent' = sent
                /\ tokenReqs' = tokenReqs]_vars

\* An acquisition sent two requests, the second one with the nonce "n1" of
\* the challenge, got a 400 with the nonce "n2" and failed; nothing else
\* was sent.
OneNonceRetryWitness ==
    \E p \in Procs :
        /\ \A q \in Procs \ {p} : pc[q] = "idle"
        /\ pc[p] = "done"
        /\ outcome[p].state = "raised"
        /\ outcome[p].error.status = 400
        /\ Len(sent[p]) = 2
        /\ Len(tokenReqs) = 2
        /\ dpopNonce = "n2"

\* C25 Final-response nonce: when the final response of an acquisition
\* carries a DPoP-Nonce header, the shared nonce is that header's value
\* when the acquisition ends, with a token or with an error.
FinalResponseNonce ==
    [][\A p \in Procs :
          (AcquisitionEnds(p) /\ response[p].nonce # NoStr)
          => dpopNonce' = response[p].nonce]_vars

\* C27 Cache hit: a call of getAccessToken that finds an entry with
\* now < expiresAt returns that entry's bearer value in the same step,
\* sends no token request, and leaves tokenCache, the shared nonce and the
\* key pair as they are.
CacheHit ==
    [][\A p \in Procs :
          (/\ pc[p] = "token" /\ pc'[p] # "token"
           /\ tokenCache # Null
           /\ now < tokenCache[1].expiresAt)
          => /\ pc'[p] = "done"
             /\ outcome'[p].state = "returned"
             /\ outcome'[p].value.accessToken = tokenCache[1].accessToken
             /\ sent'[p] = << >>
             /\ tokenReqs' = tokenReqs
             /\ uuids' = uuids
             /\ tokenCache' = tokenCache
             /\ dpopNonce' = dpopNonce
             /\ dpopKeyPair' = dpopKeyPair
             /\ keys' = keys]_vars

\* The second call was served from the entry the first one had stored: one
\* token request in all, none by the second call.
CacheHitWitness ==
    \E p \in Procs :
        /\ \A q \in Procs : pc[q] \in {"idle", "done"}
        /\ calls = 2
        /\ pc[p] = "done"
        /\ outcome[p].state = "returned"
        /\ sent[p] = << >>
        /\ Len(tokenReqs) = 1
        /\ tokenCache # Null
        /\ now < tokenCache[1].expiresAt
        /\ outcome[p].value.accessToken = tokenCache[1].accessToken

\* C28 Cache entry is whole: tokenCache changes only in the step in which
\* an acquisition succeeds, and then to the pair of the access_token of
\* that acquisition's final response and the time of that step plus
\* (expires_in - 60) * 1000 ms of the same response, whatever the order in
\* which the acquisitions of concurrent callers complete.
CacheEntryWhole ==
    [][tokenCache' # tokenCache
          => \E p \in Procs :
                 /\ pc[p] = "body"
                 /\ response[p].status \in 200 .. 299
                 /\ tokenCache'
                      = << [accessToken |-> IssuedToken(p),
                            expiresAt |-> now
                                + (response[p].expiresIn - 60) * 1000] >>
                 /\ outcome'[p].value.accessToken = IssuedToken(p)]_vars

\* Two acquisitions were in flight together and the one started first
\* completed last: the entry is the one of the first.
CacheEntryWholeWitness ==
    \E p, q \in Procs :
        /\ pc[p] = "done" /\ outcome[p].state = "returned"
        /\ pc[q] = "done" /\ outcome[q].state = "returned"
        /\ Len(tokenReqs) = 2
        /\ outcome[p].value.accessToken = tokenReqs[1]
        /\ outcome[q].value.accessToken = tokenReqs[2]
        /\ tokenCache # Null
        /\ tokenCache[1].accessToken = tokenReqs[1]


\* C26 Nonce tracked across all responses: whenever a response with a
\* DPoP-Nonce header has been received, be it the final response or the
\* challenge of a token exchange or the response of a resource call of
\* request or paginatedRequest, the shared nonce is that header's value.
NonceTracking ==
    [][\A p \in Clients :
          /\ (pc[p] \in {"wait1", "wait2"} /\ pc'[p] = "body"
                 /\ response'[p].nonce # NoStr)
             => dpopNonce' = response'[p].nonce
          /\ (pc[p] = "text400" /\ pc'[p] # "text400"
                 /\ response[p].nonce # NoStr)
             => dpopNonce' = response[p].nonce
          /\ (ResponseArrives(p) /\ received'[p].nonce # NoStr)
             => dpopNonce' = received'[p].nonce]_vars


(***************************************************************************)
(* Properties of an attempt (SpecRequest).                                 *)
(***************************************************************************)
\* C31 Retries reach success: when the resource endpoint answers an attempt
\* with a decodable 2xx, whatever failures the attempts before it met, the
\* call ends in that step and returns the payload of that response; no
\* attempt and no sleep follow, and no earlier failure is reported.
RetriesReachSuccess ==
    [][\A p \in Clients :
          /\ (/\ ResponseArrives(p)
              /\ received'[p].status \in 200 .. 299
              /\ received'[p].body = "json")
             => /\ pc'[p] = "done"
                /\ outcome'[p].state = "returned"
                /\ outcome'[p].error = NoError
                /\ outcome'[p].value.data = received'[p].body
                /\ op[p] = "paginatedRequest"
                      => outcome'[p].value = Page(received'[p])
                /\ attempt'[p] = attempt[p]
                /\ nHttp'[p] = nHttp[p]
                /\ nSleeps'[p] = nSleeps[p]
          /\ (pc[p] = "done" /\ pc'[p] = "done")
             => /\ nHttp'[p] = nHttp[p]
                /\ outcome'[p] = outcome[p]]_vars

\* maxRetries = 2: a call of request met a 429 and a network fault and got
\* its payload on the third attempt.
RetriesReachSuccessWitness ==
    \E p \in Clients :
        /\ op[p] = "request"
        /\ pc[p] = "done"
        /\ outcome[p].state = "returned"
        /\ outcome[p].value.data = "json"
        /\ attempt[p] = 2
        /\ nHttp[p] = 3
        /\ n429[p] = 1
        /\ nSleeps[p] = 1


\* The positions of a call inside getAccessToken.
TokenPcs == {"token", "keygen", "proof", "wait1", "text400", "wait2", "body"}

\* C32 Attempt ordering: every attempt, the first and each retry, starts at
\* the proactive rate-limit delay, which is computed from the recorded
\* rate-limit state; the token is resolved only after the delay, and the
\* HTTP call is sent only after the token.  The recorded state is updated
\* from the headers of every response in the step in which the response
\* arrives, whatever its status, and by nothing else, so the delay of the
\* next attempt is computed from the state that response left.
AttemptOrdering ==
    [][\A p \in Clients :
          /\ attempt'[p] # attempt[p] => pc'[p] = "delay"
          /\ (pc[p] = "done" /\ pc'[p] # "done") => pc'[p] = "delay"
          /\ (pc[p] = "delay" /\ pc'[p] # "delay")
             => IF ProactiveDelay(rateLimitState, now) = NoSleep
                THEN pc'[p] = "token"
                ELSE /\ pc'[p] = "pdsleep"
                     /\ sleepKind'[p] = "proactive"
                     /\ sleepMs'[p] = ProactiveDelay(rateLimitState, now)
          /\ (pc[p] = "pdsleep" /\ pc'[p] # "pdsleep")
             => pc'[p] = "token" /\ now' >= wakeAt[p]
          /\ (pc[p] # "token" /\ pc'[p] = "token")
             => pc[p] \in {"delay", "pdsleep"}
          /\ (pc[p] # "fetch" /\ pc'[p] = "fetch")
             => pc[p] \in TokenPcs /\ nHttp'[p] = nHttp[p] + 1
          /\ ResponseArrives(p)
             => rateLimitState' =
                  IF /\ received'[p].limit # NoNum
                     /\ received'[p].remaining # NoNum
                     /\ received'[p].reset # NoNum
                  THEN << [limit |-> received'[p].limit,
                           remaining |-> received'[p].remaining,
                           reset |-> received'[p].reset,
                           lastUpdated |-> now] >>
                  ELSE rateLimitState
          /\ rateLimitState' # rateLimitState
             => \E q \in Clients : ResponseArrives(q)]_vars

\* The 500 of attempt 0 left remaining = 5 of limit = 100 and a reset at
\* 10 s; after the retry sleep of 1000 ms attempt 1 starts with a proactive
\* sleep of (10000 - 1000) / 5 ms.
AttemptOrderingWitness ==
    \E p \in Clients :
        /\ pc[p] = "pdsleep"
        /\ attempt[p] = 1
        /\ nHttp[p] = 1
        /\ nSleeps[p] = 1
        /\ rateLimitState # Null
        /\ rateLimitState[1].remaining = 5
        /\ now = 1000
        /\ sleepMs[p] = [num |-> 9000, den |-> 5]


(***************************************************************************)
(* Concurrent calls of the client: NumProcs callers of request and         *)
(* paginatedRequest in flight together, against a resource endpoint whose  *)
(* responses carry all, some or none of the X-Rate-Limit headers, that     *)
(* answers 200, 429 and 500, and that may not answer at all.               *)
(***************************************************************************)
\* Complete and partial sets of the three headers; no two complete sets
\* share a value.
ObservedHeaders ==
    {RateLimit(100, 50, 10), RateLimit(40, 4, 20),
     RateLimit(NoNum, 3, 30), RateLimit(60, NoNum, 30),
     RateLimit(60, 3, NoNum), RateLimit(NoNum, NoNum, NoNum)}

ObservedResponses ==
    {ApiResponse(200, rl, "json", Null) : rl \in ObservedHeaders}
    \cup {ApiResponse(429, RateLimit(NoNum, 3, 30), "json", Null),
          ApiResponse(500, RateLimit(NoNum, NoNum, NoNum), "okta", Null),
          ApiResponse(200, RateLimit(NoNum, NoNum, NoNum), "text", Null)}

\* The token endpoint grants.
ObservedTokenResponses ==
    {r \in RequestTokenResponses : r.status = 200 /\ r.expiresIn = 61}

\* A caller starts a call while others are in flight.
CallConcurrently(p, o) ==
    /\ calls < MaxCalls
    /\ BeginRequest(p, o)
    /\ UNCHANGED << mcp, api >>

InitObserve ==
    /\ InitGlobals
    /\ InitLocals
    /\ InitMcp
    /\ InitApi
    /\ config \in [maxRetries : {1}, keyOk : {TRUE}]

NextObserve ==
    \/ \E p \in Procs : \E o \in Operations : CallConcurrently(p, o)
    \/ \E p \in Procs : ProactiveRateLimitDelay(p)
    \/ \E p \in Procs : ProactiveSleepDone(p)
    \/ \E p \in Procs : GetAccessToken(p)
    \/ \E p \in Procs : GenerateKeyPair(p)
    \/ \E p \in Procs : SendTokenRequest(p)
    \/ \E p \in Procs : \E r \in ObservedTokenResponses : TokenResponse(p, r)
    \/ \E p \in Procs : ReadTokenBody(p)
    \/ \E p \in Procs : \E r \in ObservedResponses : ResourceResponse(p, r)
    \/ \E p \in Procs : \E e \in {FetchFailed, FetchTimeout} :
            ResourceFetchFails(p, e)
    \/ \E p \in Procs : RetrySleepDone(p)
    \/ Tick

SpecObserve == InitObserve /\ [][NextObserve]_vars

\* The three X-Rate-Limit headers of response r are all there.
Complete(r) == r.limit # NoNum /\ r.remaining # NoNum /\ r.reset # NoNum

\* The recorded state st holds the three values of response r.
RecordedFrom(st, r) ==
    /\ st # Null
    /\ st[1].limit = r.limit
    /\ st[1].remaining = r.remaining
    /\ st[1].reset = r.reset

\* C33 Rate-limit observation: a response that carries all three
\* X-Rate-Limit headers replaces limit, remaining and reset together with
\* its own values; a response that lacks any of the three leaves the
\* recorded state as it is; nothing else writes the state.  So the three
\* recorded fields always stem from one response, the most recent complete
\* one, however the calls of concurrent callers interleave.
RateLimitObservation ==
    [][/\ \A p \in Procs :
             ResponseArrives(p)
             => IF Complete(received'[p])
                THEN /\ RecordedFrom(rateLimitState', received'[p])
                     /\ rateLimitState'[1].lastUpdated = now
                ELSE rateLimitState' = rateLimitState
       /\ rateLimitState' # rateLimitState
          => \E p \in Procs :
                 ResponseArrives(p) /\ Complete(received'[p])]_vars

\* Two calls are in flight together: one ended on a response with all
\* three headers, the other sleeps after a 429 with two of the three; the
\* recorded state is that of the complete response, field by field.
RateLimitObservationWitness ==
    \E p, q \in Procs :
        /\ p # q
        /\ pc[p] = "done" /\ pc[q] = "sleep"
        /\ received[p].limit = 100 /\ Complete(received[p])
        /\ received[q].limit = NoNum /\ received[q].remaining = 3
        /\ attempt[q] = 0
        /\ RecordedFrom(rateLimitState, received[p])

\* The three decisions of the retry loop after a fetch, and the immediate
\* next attempt of the catch block.
Decision(kind, ms, status, type) ==
    [kind |-> kind, ms |-> ms, status |-> status, type |-> type]

\* The decision call p has taken in this step, read from where the step
\* leaves it.
Taken(p) ==
    IF pc'[p] = "sleep"
    THEN Decision("sleep", sleepMs'[p], NoNum, NoStr)
    ELSE IF pc'[p] = "delay"
    THEN Decision("again", NoSleep, NoNum, NoStr)
    ELSE IF pc'[p] = "done" /\ outcome'[p].state = "raised"
    THEN Decision("error", NoSleep, outcome'[p].error.status,
                  outcome'[p].error.errorType)
    ELSE IF pc'[p] = "done" /\ outcome'[p].state = "returned"
    THEN Decision("success", NoSleep, NoNum, NoStr)
    ELSE Decision("none", NoSleep, NoNum, NoStr)

\* The decision on response r of attempt a at clock t, as a function of
\* these and of maxRetries alone.
OnResponse(r, a, maxRetries, t) ==
    IF r.status = 429 /\ a < maxRetries
    THEN Decision("sleep", Ms(WaitMs(r, a, t)), NoNum, NoStr)
    ELSE IF r.status >= 500 /\ a < maxRetries
    THEN Decision("sleep", Ms(Backoff(a)), NoNum, NoStr)
    ELSE IF ~ResponseOk(r.status)
    THEN Decision("error", NoSleep, r.status, GetErrorType(r.status))
    ELSE Decision("success", NoSleep, NoNum, NoStr)

\* The decisions on a fetch that fails: a timeout, or a network fault.
OnFault(a, maxRetries) ==
    IF a < maxRetries
    THEN {Decision("again", NoSleep, NoNum, NoStr)}
    ELSE {Decision("error", NoSleep, 0, "api_error"),
          Decision("error", NoSleep, NoNum, NoStr)}

\* The body of response r can be decoded by both operations.
Decodable(r) == ~(ResponseOk(r.status) /\ r.body = "text")

HttpMethods == {"GET"}
GivenTokens == {101, 102}

\* Resource URLs without and with a query string.
ResourceUrls == {<< Origin >>, ExampleNextUrl}

\* The token endpoint's answers in this model: grants with and without a
\* nonce, a challenge, and a challenge without the header.
ModuleTokenResponses ==
    {r \in TokenResponses :
        \/ r.status = 200 /\ r.nonce \in {NoStr, "n2"} /\ r.expiresIn = 61
        \/ r.status = 400 /\ r.body = "use_dpop_nonce"
              /\ r.nonce \in {NoStr, "n1"}}

\* The arguments of updateDPoPNonce: null and a nonce.
GivenNonces == {NoStr, "n2"}

InitModule ==
    /\ InitGlobals
    /\ InitLocals
    /\ InitMcp
    /\ InitApi
    /\ config \in [maxRetries : {DefaultMaxRetries}, keyOk : {TRUE}]

NextModule ==
    \/ \E p \in Procs : CallGetAccessToken(p)
    \/ \E p \in Procs : GetAccessToken(p)
    \/ \E p \in Procs : GenerateKeyPair(p)
    \/ \E p \in Procs : SendTokenRequest(p)
    \/ \E p \in Procs : \E r \in ModuleTokenResponses : TokenResponse(p, r)
    \/ \E p \in Procs : TokenFetchFails(p)
    \/ \E p \in Procs : ReadChallengeBody(p)
    \/ \E p \in Procs : ReadTokenBody(p)
    \/ \E p \in Procs : \E htm \in HttpMethods : \E htu \in ResourceUrls :
          \E accessToken \in GivenTokens :
              CallCreateDPoPProofForRequest(p, htm, htu, accessToken)
    \/ \E p \in Procs : SignProof(p)
    \/ \E nonce \in GivenNonces : UpdateDPoPNonce(nonce)
    \/ ClearTokenCache

SpecModule == InitModule /\ [][NextModule]_vars


(***************************************************************************)
(* Properties of the signer and of the module state (SpecModule).          *)
(***************************************************************************)
\* The proof the last token request of p carries.
LastProof(p) == sent[p][Len(sent[p])].proof

\* C34 Nonce embedding: a proof has a nonce claim exactly when an explicit
\* nonce argument or a stored shared nonce exists at its signing; the
\* explicit argument is embedded when both exist, the stored nonce when it
\* alone exists, and nothing when neither exists.
NonceEmbedding ==
    [][\A p \in Procs :
          /\ (pc[p] = "proof" /\ pc'[p] = "wait1")
             => LastProof(p)'.nonce = dpopNonce
          /\ (pc[p] = "text400" /\ pc'[p] = "wait2")
             => LastProof(p)'.nonce = response[p].nonce
          /\ (pc[p] = "claims" /\ pc'[p] = "done")
             => /\ proofCall'[p].proof # Null
                /\ proofCall'[p].proof[1].nonce =
                      IF proofCall[p].nonce # NoStr THEN proofCall[p].nonce
                      ELSE IF dpopNonce # NoStr THEN dpopNonce
                      ELSE NoStr]_vars

\* A proof was asked for while the shared nonce was n1 and signed after
\* updateDPoPNonce had stored n2: it embeds n1.
NonceEmbeddingWitness ==
    \E p \in Procs :
        /\ proofCall[p].proof # Null
        /\ proofCall[p].nonce = "n1"
        /\ dpopNonce = "n2"
        /\ proofCall[p].proof[1].nonce = "n1"

\* C35 Token hash binding: both proofs of a token exchange, the first one
\* and the one of the nonce retry, carry no access-token hash, and a proof
\* built by createDPoPProofForRequest carries the hash of the token it was
\* given.
TokenHashBinding ==
    \A p \in Procs :
        /\ \A i \in 1 .. Len(sent[p]) : sent[p][i].proof.ath = Null
        /\ proofCall[p].proof # Null
           => proofCall[p].proof[1].ath
                 = << "sha256", proofCall[p].accessToken >>

\* One caller has sent both proofs of a token exchange, another has a proof
\* for the token 102.
TokenHashBindingWitness ==
    \E p, q \in Procs :
        /\ Len(sent[p]) = 2
        /\ proofCall[q].proof # Null
        /\ proofCall[q].accessToken = 102
        /\ proofCall[q].proof[1].ath = << "sha256", 102 >>

\* C36 Proof URL without query: the htu claim of every proof is the target
\* URL with no query string: the token endpoint for the proofs of a token
\* exchange, and for a proof of createDPoPProofForRequest the resource URL
\* up to its "?".
ProofUrlWithoutQuery ==
    \A p \in Procs :
        /\ \A i \in 1 .. Len(sent[p]) : sent[p][i].proof.htu = TokenEndpoint
        /\ proofCall[p].proof # Null
           => /\ IndexOf(proofCall[p].proof[1].htu, "?", 1) = 0
              /\ proofCall[p].proof[1].htu = << proofCall[p].htu[1] >>

Cleared == cleared' # cleared

\* Call p of getAccessToken, started after the last clearTokenCache with no
\* token request sent since, looks at the cache in this step.
FirstLookAfterClear(p) ==
    /\ op[p] = "getAccessToken"
    /\ pc[p] = "token" /\ pc'[p] # "token"
    /\ cleared # Null
    /\ p \in cleared[1].callers
    /\ Len(tokenReqs) = cleared[1].tokenReqs

\* clearTokenCache makes the cache absent and changes nothing else.
ClearFrame ==
    Cleared
    => /\ tokenCache' = Null
       /\ UNCHANGED << now, config, dpopKeyPair, dpopNonce, rateLimitState,
                       uuids, keys, calls, tokenReqs, locals, mcp, proofCall >>

\* C39 clearTokenCache frame: clearTokenCache makes the token cache absent
\* and changes nothing else (shared nonce, key pair, rate-limit state), and
\* the next getAccessToken call started after it performs a token exchange
\* and does not serve the value cached before the clear.
ClearThenExchange ==
    [][/\ ClearFrame
       /\ \A p \in Procs :
             FirstLookAfterClear(p)
             => /\ pc'[p] \in {"keygen", "proof"}
                /\ ~(outcome'[p].state = "returned"
                       /\ cleared[1].entry # Null
                       /\ outcome'[p].value.accessToken
                              = cleared[1].entry[1].accessToken)]_vars

=============================================================================
